---- MODULE Spec2Model ----
(***************************************************************************)
(* Model of the three fetcher adaptors of ProSA-Adaptor-Home:              *)
(*   src/src/freebox.rs     FetcherFreeboxAdaptor  (challenge/token,       *)
(*                          dynamic-tail sequencer)                        *)
(*   src/src/bbox.rs        FetcherBBoxAdaptor     (cookie login, static   *)
(*                          chain, merged snapshot)                        *)
(*   src/src/deye_solar.rs  FetcherDeyeSolarAdaptor (text scrape)          *)
(* One behaviour is one device instance: `profile` is chosen in Init and   *)
(* never changes.  The fetcher processor that drives an adaptor calls      *)
(* fetch(), and while the adaptor answers FetchAction::Http it calls       *)
(* create_http_request(), sends the request and hands the response to      *)
(* process_http_response(); `pc` is the position in that loop.             *)
(***************************************************************************)
EXTENDS Integers, Sequences, FiniteSets, TLC

(* ----------------------------- bounds --------------------------------- *)
\* number of fetch() calls of one behaviour
MaxCycles == 2
\* largest result array of a switch/status response in the adaptor model
MaxPorts == 2
\* 401 answers accepted in one cycle before the environment stops sending them
MaxUnauthorized == 1
\* empty-array bodies a BBox answers with in one behaviour
MaxEmpty == 1
\* merges of the merge walk
MaxMerges == 2
\* 401 answers in one cycle of the re-login walk
MaxRetries == 3

(* ------------------------ program constants --------------------------- *)
\* number_ports and SwitchPort(u8): the largest u8
U8Max == 255

(* ----------------------------- Option --------------------------------- *)
None == <<>>
Some(v) == <<v>>
IsSome(o) == o # None
IsNone(o) == o = None
Unwrap(o) == o[1]

(* ===================== freebox.rs: the sequencer ====================== *)
\* enum FreeboxFetchState; `port` is the payload of SwitchPort, 0 otherwise
FbTag(t) == [tag |-> t, port |-> 0]
SwitchPort(p) == [tag |-> "SwitchPort", port |-> p]
FbEnd == FbTag("End")
FreeboxFetchState ==
    {FbTag(t) : t \in {"Connection", "System", "SwitchStatus", "End"}}
        \cup {SwitchPort(p) : p \in 0..U8Max}
\* #[default] Connection
FreeboxDefault == FbTag("Connection")

\* FreeboxFetchState::call: the URI of the call, None for End
FreeboxCall(self) ==
    CASE self.tag = "Connection" -> Some(<<"GET", "/api/v4/connection/">>)
      [] self.tag = "System" -> Some(<<"GET", "/api/v4/system/">>)
      [] self.tag = "SwitchStatus" -> Some(<<"GET", "/api/v4/switch/status/">>)
      [] self.tag = "SwitchPort" ->
            Some(<<"GET", "/api/v4/switch/port/{port}/stats", self.port>>)
      [] OTHER -> None

\* a sequencer that stops one port early (port > 1 written as port > 2)
FreeboxNextStateStopsEarly(self, number_ports) ==
    CASE self.tag = "Connection" -> FbTag("System")
      [] self.tag = "System" -> FbTag("SwitchStatus")
      [] self.tag = "SwitchStatus" -> SwitchPort(number_ports)
      [] self.tag = "SwitchPort" ->
            IF self.port > 2 THEN SwitchPort(self.port - 1) ELSE FbEnd
      [] OTHER -> FbEnd

\* FreeboxFetchState::next_state
FreeboxNextState(self, number_ports) ==
    CASE self.tag = "Connection" -> FbTag("System")
      [] self.tag = "System" -> FbTag("SwitchStatus")
      [] self.tag = "SwitchStatus" -> SwitchPort(number_ports)
      [] self.tag = "SwitchPort" ->
            \* Port ID start at 1
            IF self.port > 1 THEN SwitchPort(self.port - 1) ELSE FbEnd
      [] OTHER -> FbEnd

(* ================= freebox.rs: bodies and parsing ==================== *)
\* A response body as the device wrote it: `wf` is whether it is JSON at all,
\* `success` the envelope's flag (None when the field is absent) and `result`
\* the envelope's result: absent, an object (a map) or an array.
Absent == [k |-> "absent"]
Object(m) == [k |-> "object", map |-> m]
Array(items) == [k |-> "array", items |-> items]
Malformed == [wf |-> FALSE, success |-> None, result |-> Absent]
Envelope(success, result) == [wf |-> TRUE, success |-> success, result |-> result]

\* #[derive(Default)] FreeboxApiResponse: success false, no result
FreeboxApiResponseDefault == [success |-> FALSE, result |-> None]

\* serde_json::from_reader::<FreeboxApiResponse>: `success: bool` is required,
\* `result: Option<HashMap<..>>` may be absent but must be an object if present
ParseFreeboxApiResponse(body) ==
    IF ~body.wf \/ IsNone(body.success) \/ body.result.k = "array"
    THEN None
    ELSE Some([success |-> Unwrap(body.success),
               result |-> IF body.result.k = "object"
                          THEN Some(body.result.map) ELSE None])

\* serde_json::from_reader::<Value>: any JSON document
ParseValue(body) == IF body.wf THEN Some(body) ELSE None

\* switch_status_resp.get("result").and_then(|r| r.as_array())
ResultArray(value) ==
    IF value.result.k = "array" THEN Some(value.result.items) ELSE None

\* A member of a login result is a JSON string, written as that string, or a
\* JSON value of another type, written JsonNumber.
JsonNumber == "7 (a JSON number)"
\* Value::as_str
AsStr(v) == IF v = JsonNumber THEN None ELSE Some(v)

\* a getter that takes an absent or non-string member for the empty string
GetStringOrEmpty(resp, key) ==
    IF IsSome(resp.result) /\ key \in DOMAIN Unwrap(resp.result)
       /\ IsSome(AsStr(Unwrap(resp.result)[key]))
    THEN AsStr(Unwrap(resp.result)[key])
    ELSE Some("")

\* FreeboxApiResponse::get_string
GetString(resp, key) ==
    IF IsSome(resp.result) /\ key \in DOMAIN Unwrap(resp.result)
    THEN AsStr(Unwrap(resp.result)[key])
    ELSE None

\* `len() as u8`: the low 8 bits
AsU8(n) == n % (U8Max + 1)

(* ================= freebox.rs: FetcherFreeboxAdaptor ================== *)
\* FetcherAdaptor::new
FreeboxNew ==
    [challenge_freebox |-> None,
     session_token |-> None,
     state |-> FbEnd,
     number_ports |-> 0,
     meter_conn |-> FreeboxApiResponseDefault,
     meter_system |-> FreeboxApiResponseDefault,
     meter_switch |-> <<>>,
     meter_eth |-> <<>>]

\* a fetch that asks for a new challenge every cycle and keeps the token
FreeboxFetchClearsChallenge(self) ==
    [self |-> [self EXCEPT !.state = FreeboxDefault, !.challenge_freebox = None],
     ret |-> "Http"]

\* a fetch that forgets the port count
FreeboxFetchForgetsPorts(self) ==
    [self |-> [self EXCEPT !.state = FreeboxDefault, !.number_ports = 0],
     ret |-> "Http"]

\* FetcherAdaptor::fetch
FreeboxFetch(self) ==
    [self |-> [self EXCEPT !.state = FreeboxDefault], ret |-> "Http"]

\* a builder that looks at the token before the challenge
FreeboxCreateHttpRequestTokenFirst(self) ==
    IF IsNone(self.session_token)
    THEN Some([kind |-> "session", tag |-> self.state])
    ELSE IF IsNone(self.challenge_freebox)
    THEN Some([kind |-> "challenge", tag |-> self.state])
    ELSE IF IsSome(FreeboxCall(self.state))
    THEN Some([kind |-> "data", tag |-> self.state])
    ELSE None

\* FetcherAdaptor::create_http_request; settings hold a username and a secret
FreeboxCreateHttpRequest(self) ==
    IF IsNone(self.challenge_freebox)
    THEN Some([kind |-> "challenge", tag |-> self.state])
    ELSE IF IsNone(self.session_token)
    THEN Some([kind |-> "session", tag |-> self.state])
    ELSE IF IsSome(FreeboxCall(self.state))
    THEN Some([kind |-> "data", tag |-> self.state])
    ELSE None

\* what process_http_response hands back: the adaptor afterwards, the
\* FetchAction or error returned (`ret`), the branch taken (`why`) and the
\* watch channels sent on (`sent`)
Outcome(self, ret, why, sent) ==
    [self |-> self, ret |-> ret, why |-> why, sent |-> sent]

\* the SwitchPort(port_id) arm: lines 656-669
FreeboxStorePort(self, port_id, api_resp) ==
    LET eth0 == self.meter_eth
        eth == IF eth0 # <<>> THEN eth0
               ELSE [i \in 1..self.number_ports |-> FreeboxApiResponseDefault]
    IN  \* eth[(port_id - 1) as usize]: port_id = 0 underflows (panic in a
        \* checked build, index 255 of at most 255 elements otherwise)
        IF port_id >= 1 /\ port_id <= Len(eth)
        THEN Some([eth EXCEPT ![port_id] = api_resp])
        ELSE None

\* the data arm of process_http_response for a 200: lines 607-689
FreeboxProcessData(self, body) ==
    IF self.state = FbTag("SwitchStatus")
    THEN LET value == ParseValue(body) IN
         IF IsNone(value) THEN Outcome(self, "Err", "malformed", <<>>)
         ELSE LET arr == ResultArray(Unwrap(value)) IN
              IF IsSome(arr)
              THEN LET n == AsU8(Len(Unwrap(arr))) IN
                   Outcome([self EXCEPT !.number_ports = n,
                                        !.meter_switch = Unwrap(arr),
                                        !.state = FreeboxNextState(self.state, n)],
                           "Http", "ok", <<"meter_switch">>)
              ELSE Outcome(self, "None", "no_result_array", <<>>)
    ELSE LET parsed == ParseFreeboxApiResponse(body) IN
         IF IsNone(parsed) THEN Outcome(self, "Err", "malformed", <<>>)
         ELSE LET api_resp == Unwrap(parsed) IN
              IF ~api_resp.success
              THEN Outcome(self, "None", "not_success", <<>>)
              ELSE LET stored == FreeboxStorePort(self, self.state.port, api_resp)
                       next == FreeboxNextState(self.state, self.number_ports)
                       ret == IF next # FbEnd THEN "Http" ELSE "None"
                   IN  CASE self.state.tag = "Connection" ->
                                Outcome([self EXCEPT !.meter_conn = api_resp,
                                                     !.state = next],
                                        ret, "ok", <<"meter_conn">>)
                         [] self.state.tag = "System" ->
                                Outcome([self EXCEPT !.meter_system = api_resp,
                                                     !.state = next],
                                        ret, "ok", <<"meter_system">>)
                         [] self.state.tag = "SwitchPort" ->
                                IF IsSome(stored)
                                THEN Outcome([self EXCEPT !.meter_eth = Unwrap(stored),
                                                          !.state = next],
                                             ret, "ok", <<"meter_eth">>)
                                ELSE Outcome(self, "Panic", "index", <<>>)
                         [] OTHER ->
                                Outcome([self EXCEPT !.state = next], ret, "ok", <<>>)

\* the Err(..) arms of the match on the response: lines 696-705
FreeboxTransport(self, response) ==
    IF response.transport = "canceled"
    THEN Outcome(self, "None", "canceled", <<>>)
    ELSE Outcome(self, "Err", "transport", <<>>)

\* a session arm that drops the challenge when the exchange fails
FreeboxSessionDropsChallenge(self, response) ==
    LET failed == [self EXCEPT !.challenge_freebox = None] IN
    IF response.status = 200
    THEN LET login_json == ParseFreeboxApiResponse(response.body) IN
         IF IsNone(login_json)
         THEN Outcome(failed, "Err", "malformed", <<>>)
         ELSE LET token == GetString(Unwrap(login_json), "session_token") IN
              IF IsSome(token)
              THEN Outcome([self EXCEPT !.session_token = token],
                           "Http", "ok", <<>>)
              ELSE Outcome(failed, "Err", "no_field", <<>>)
    ELSE Outcome(failed, "Err", "status", <<>>)

\* the arm of a response to the session exchange: lines 572-604
FreeboxSession(self, response) ==
    IF response.status = 200
    THEN LET login_json == ParseFreeboxApiResponse(response.body) IN
         IF IsNone(login_json)
         THEN Outcome(self, "Err", "malformed", <<>>)
         ELSE LET token == GetString(Unwrap(login_json), "session_token") IN
              IF IsSome(token)
              THEN Outcome([self EXCEPT !.session_token = token],
                           "Http", "ok", <<>>)
              ELSE Outcome(self, "Err", "no_field", <<>>)
    ELSE Outcome(self, "Err", "status", <<>>)

\* FetcherAdaptor::process_http_response
FreeboxProcessHttpResponse(self, response) ==
    IF response.transport = "ok"
    THEN IF IsNone(self.challenge_freebox)
         THEN IF response.status = 200
              THEN LET login_json == ParseFreeboxApiResponse(response.body) IN
                   IF IsNone(login_json)
                   THEN Outcome(self, "Err", "malformed", <<>>)
                   ELSE LET challenge == GetString(Unwrap(login_json), "challenge") IN
                        IF IsSome(challenge)
                        THEN Outcome([self EXCEPT !.challenge_freebox = challenge],
                                     "Http", "ok", <<>>)
                        ELSE Outcome(self, "Err", "no_field", <<>>)
              ELSE Outcome(self, "Err", "status", <<>>)
         ELSE IF IsNone(self.session_token)
         THEN FreeboxSession(self, response)
         ELSE IF response.status = 200
              THEN FreeboxProcessData(self, response.body)
              ELSE Outcome(self, "Err", "status", <<>>)
    ELSE FreeboxTransport(self, response)

(* ======================= bbox.rs: the sequencer ======================= *)
\* enum BBoxFetchState; `high` is the payload of Wifi, FALSE otherwise
BbTag(t) == [tag |-> t, high |-> FALSE]
Wifi(high) == [tag |-> "Wifi", high |-> high]
BbEnd == BbTag("End")
\* #[default] Cpu
BBoxDefault == BbTag("Cpu")

\* BBoxFetchState::call
BBoxCall(self) ==
    CASE self.tag = "Cpu" -> Some(<<"GET", "/api/v1/device/cpu">>)
      [] self.tag = "Mem" -> Some(<<"GET", "/api/v1/device/mem">>)
      [] self.tag = "Wan" -> Some(<<"GET", "/api/v1/wan/ip/stats">>)
      [] self.tag = "Lan" -> Some(<<"GET", "/api/v1/lan/stats">>)
      [] self.tag = "Wifi" ->
            IF self.high THEN Some(<<"GET", "/api/v1/wireless/5/stats">>)
            ELSE Some(<<"GET", "/api/v1/wireless/24/stats">>)
      [] OTHER -> None

\* a chain that forgets the memory call
BBoxNextStateSkipsMem(self) ==
    CASE self.tag = "Cpu" -> BbTag("Wan")
      [] self.tag = "Mem" -> BbTag("Wan")
      [] self.tag = "Wan" -> BbTag("Lan")
      [] self.tag = "Lan" -> Wifi(FALSE)
      [] self = Wifi(FALSE) -> Wifi(TRUE)
      [] self = Wifi(TRUE) -> BbEnd
      [] OTHER -> BbEnd

\* BBoxFetchState::next_state
BBoxNextState(self) ==
    CASE self.tag = "Cpu" -> BbTag("Mem")
      [] self.tag = "Mem" -> BbTag("Wan")
      [] self.tag = "Wan" -> BbTag("Lan")
      [] self.tag = "Lan" -> Wifi(FALSE)
      [] self = Wifi(FALSE) -> Wifi(TRUE)
      [] self = Wifi(TRUE) -> BbEnd
      [] OTHER -> BbEnd

(* ===================== bbox.rs: BBoxApiResponse ======================= *)
\* A category is Option<HashMap<String, Value>>: None, or Some of a function
\* from its keys to their values.
EmptyMap == [k \in {} |-> 0]

\* #[derive(Default)] BBoxApiResponse
BBoxApiResponseDefault ==
    [device |-> None, wan |-> None, lan |-> None, wireless |-> None]

\* an extend that never replaces a value already present (entry().or_insert)
ExtendKeepsOld(map, other) ==
    [k \in (DOMAIN map) \cup (DOMAIN other) |->
        IF k \in DOMAIN map THEN map[k] ELSE other[k]]

\* HashMap::extend: every pair of `other` is inserted, replacing the value of a
\* key already present
Extend(map, other) ==
    [k \in (DOMAIN map) \cup (DOMAIN other) |->
        IF k \in DOMAIN other THEN other[k] ELSE map[k]]

\* HashMap::insert
Insert(map, key, value) ==
    [k \in (DOMAIN map) \cup {key} |-> IF k = key THEN value ELSE map[k]]

\* a merge that replaces the category by the fragment's
MergeCategoryReplaces(mine, theirs) ==
    IF IsSome(theirs) THEN theirs ELSE mine

\* the device, wan and lan arms of merge: lines 91-113
MergeCategory(mine, theirs) ==
    IF IsSome(theirs)
    THEN IF IsSome(mine) THEN Some(Extend(Unwrap(mine), Unwrap(theirs)))
         ELSE theirs
    ELSE mine

\* A value of the wireless map: `obj` is whether it is a JSON object, `id` its
\* "id" member when that is a number, `v` the rest of it.
Digit == <<"0", "1", "2", "3", "4", "5", "6", "7", "8", "9">>
RECURSIVE NumberToString(_)
\* serde_json::Number::to_string of a natural number
NumberToString(n) ==
    IF n < 10 THEN Digit[n + 1]
    ELSE NumberToString(n \div 10) \o Digit[(n % 10) + 1]

\* wireless_other.get("ssid").and_then(|s| s.as_object()), then
\* ssid.get("id").and_then(|i| i.as_number()): the ssid object when it has a
\* numeric id
SsidWithId(wireless_other) ==
    IF "ssid" \in DOMAIN wireless_other
       /\ wireless_other["ssid"].obj
       /\ IsSome(wireless_other["ssid"].id)
    THEN Some(wireless_other["ssid"])
    ELSE None

\* a wireless merge that starts a new map for every fragment
MergeWirelessReplaces(mine, theirs) ==
    IF IsSome(theirs)
    THEN LET ssid == SsidWithId(Unwrap(theirs)) IN
         IF IsSome(ssid)
         THEN Some(Insert(EmptyMap, NumberToString(Unwrap(Unwrap(ssid).id)),
                          Unwrap(ssid)))
         ELSE mine
    ELSE mine

\* a wireless merge that forgets the category when a fragment cannot be placed
MergeWirelessDropsAll(mine, theirs) ==
    IF IsSome(theirs)
    THEN LET ssid == SsidWithId(Unwrap(theirs)) IN
         IF IsSome(ssid)
         THEN LET key == NumberToString(Unwrap(Unwrap(ssid).id)) IN
              IF IsSome(mine)
              THEN Some(Insert(Unwrap(mine), key, Unwrap(ssid)))
              ELSE Some(Insert(EmptyMap, key, Unwrap(ssid)))
         ELSE None
    ELSE mine

\* the wireless arm of merge: lines 115-129
MergeWireless(mine, theirs) ==
    IF IsSome(theirs)
    THEN LET ssid == SsidWithId(Unwrap(theirs)) IN
         IF IsSome(ssid)
         THEN LET key == NumberToString(Unwrap(Unwrap(ssid).id)) IN
              IF IsSome(mine)
              THEN Some(Insert(Unwrap(mine), key, Unwrap(ssid)))
              ELSE Some(Insert(EmptyMap, key, Unwrap(ssid)))
         ELSE mine
    ELSE mine

\* BBoxApiResponse::merge
Merge(self, other) ==
    [device |-> MergeCategory(self.device, other.device),
     wan |-> MergeCategory(self.wan, other.wan),
     lan |-> MergeCategory(self.lan, other.lan),
     wireless |-> MergeWireless(self.wireless, other.wireless)]

\* a take that hands out a copy and leaves the snapshot as it is
TakeLeavesCopy(self) == [taken |-> self, left |-> self]

\* BBoxApiResponse::take: the value handed out, and what is left behind
Take(self) == [taken |-> self, left |-> BBoxApiResponseDefault]

RECURSIVE MergeAllReversed(_, _)
\* a loop that merges the elements of the array from the last to the first
MergeAllReversed(stats, api_resp) ==
    IF api_resp = <<>> THEN stats
    ELSE Merge(MergeAllReversed(stats, Tail(api_resp)), Head(api_resp))

RECURSIVE MergeAll(_, _)
\* for bbox_api in api_resp { self.stats.merge(bbox_api) }: lines 778-780
MergeAll(stats, api_resp) ==
    IF api_resp = <<>> THEN stats
    ELSE MergeAll(Merge(stats, Head(api_resp)), Tail(api_resp))

(* ==================== bbox.rs: FetcherBBoxAdaptor ===================== *)
\* FetcherAdaptor::new
BBoxNew ==
    [bbox_id |-> None,
     state |-> BbEnd,
     stats |-> BBoxApiResponseDefault,
     meter_bbox |-> BBoxApiResponseDefault]

\* a fetch that goes on where the previous cycle stopped
BBoxFetchResumes(self) == [self |-> self, ret |-> "Http"]

\* FetcherAdaptor::fetch
BBoxFetch(self) ==
    [self |-> [self EXCEPT !.state = BBoxDefault], ret |-> "Http"]

\* a builder that sends the data call without looking at the cookie
BBoxCreateHttpRequestSkipsLogin(self) ==
    IF IsSome(BBoxCall(self.state))
    THEN Some([kind |-> "data", tag |-> self.state])
    ELSE None

\* FetcherAdaptor::create_http_request; settings hold a password
BBoxCreateHttpRequest(self) ==
    IF IsNone(self.bbox_id)
    THEN Some([kind |-> "login", tag |-> self.state])
    ELSE IF IsSome(BBoxCall(self.state))
    THEN Some([kind |-> "data", tag |-> self.state])
    ELSE None

RECURSIVE BBoxCookie(_, _)
\* the loop over the Set-Cookie headers: lines 736-746; a header is
\* [name, value], value being what stands before the first ';'
BBoxCookie(bbox_id, cookies) ==
    IF cookies = <<>> THEN bbox_id
    ELSE BBoxCookie(IF Head(cookies).name = "BBOX_ID"
                    THEN Some(Head(cookies).value) ELSE bbox_id,
                    Tail(cookies))

\* a parse that takes what it could read of a body that is not JSON
ParseBBoxApiResponsesLenient(body) == Some(body.items)

\* serde_json::from_reader::<Vec<BBoxApiResponse>>
ParseBBoxApiResponses(body) == IF body.wf THEN Some(body.items) ELSE None

\* a re-login that also starts the chain again
BBoxUnauthorizedRestarts(self) ==
    Outcome([self EXCEPT !.bbox_id = None, !.state = BBoxDefault],
            "Http", "unauthorized", <<>>)

\* a 401 that also empties the working snapshot
BBoxUnauthorizedDropsStats(self) ==
    Outcome([self EXCEPT !.bbox_id = None, !.stats = BBoxApiResponseDefault],
            "Http", "unauthorized", <<>>)

\* a 401 that ends the cycle with an error
BBoxUnauthorizedFails(self) ==
    Outcome([self EXCEPT !.bbox_id = None], "Err", "unauthorized", <<>>)

\* the StatusCode::UNAUTHORIZED arm: lines 792-796
BBoxUnauthorized(self) ==
    Outcome([self EXCEPT !.bbox_id = None], "Http", "unauthorized", <<>>)

\* a publish at every data step and not only at End
BBoxAdvanceSendsEarly(self, stats) ==
    LET next == BBoxNextState(self.state) IN
    IF next # BbEnd
    THEN Outcome([self EXCEPT !.stats = stats, !.state = next,
                              !.meter_bbox = stats],
                 "Http", "ok", <<"meter_bbox">>)
    ELSE Outcome([self EXCEPT !.stats = Take(stats).left, !.state = next,
                              !.meter_bbox = Take(stats).taken],
                 "None", "ok", <<"meter_bbox">>)

\* a publish that merges the snapshot into the value the channel holds
BBoxAdvanceMergesIntoHeld(self, stats) ==
    LET next == BBoxNextState(self.state) IN
    IF next # BbEnd
    THEN Outcome([self EXCEPT !.stats = stats, !.state = next],
                 "Http", "ok", <<>>)
    ELSE Outcome([self EXCEPT !.stats = Take(stats).left, !.state = next,
                              !.meter_bbox = Merge(self.meter_bbox, Take(stats).taken)],
                 "None", "ok", <<"meter_bbox">>)

\* after the merge: lines 782-790
BBoxAdvance(self, stats) ==
    LET next == BBoxNextState(self.state) IN
    IF next # BbEnd
    THEN Outcome([self EXCEPT !.stats = stats, !.state = next],
                 "Http", "ok", <<>>)
    ELSE Outcome([self EXCEPT !.stats = Take(stats).left, !.state = next,
                              !.meter_bbox = Take(stats).taken],
                 "None", "ok", <<"meter_bbox">>)

\* a cancelled request treated like any other transport failure
BBoxTransportAlwaysErr(self, response) ==
    Outcome(self, "Err", "transport", <<>>)

\* the Err(..) arms of the match on the response: lines 803-812
BBoxTransport(self, response) ==
    IF response.transport = "canceled"
    THEN Outcome(self, "None", "canceled", <<>>)
    ELSE Outcome(self, "Err", "transport", <<>>)

\* FetcherAdaptor::process_http_response
BBoxProcessHttpResponse(self, response) ==
    IF response.transport = "ok"
    THEN IF IsNone(self.bbox_id)
         THEN IF response.status = 200
              THEN LET bbox_id == BBoxCookie(self.bbox_id, response.cookies) IN
                   IF IsSome(bbox_id)
                   THEN Outcome([self EXCEPT !.bbox_id = bbox_id],
                                "Http", "ok", <<>>)
                   ELSE Outcome(self, "Err", "no_field", <<>>)
              ELSE Outcome(self, "Err", "status", <<>>)
         ELSE IF response.status = 200
              THEN LET api_resp == ParseBBoxApiResponses(response.body) IN
                   IF IsNone(api_resp)
                   THEN Outcome(self, "Err", "malformed", <<>>)
                   ELSE BBoxAdvance(self, MergeAll(self.stats, Unwrap(api_resp)))
              ELSE IF response.status = 401
              THEN BBoxUnauthorized(self)
              ELSE Outcome(self, "Err", "status", <<>>)
    ELSE BBoxTransport(self, response)

(* =================== deye_solar.rs: DeyeSolarData ===================== *)
\* Text is a sequence of one-character strings.  A line of the status
\* document is [name, tail]: `name` is the variable of the assignment the line
\* starts with ("html" for a line that does not start with "var "), `tail`
\* what follows the opening quote, i.e. the line with the prefix
\* `var <name> = "` stripped.
Line(name, tail) == [name |-> name, tail |-> tail]
Quote == "\""
\* the suffixes stripped by try_from: `";` and `%";`
SuffixPlain == <<Quote, ";">>
SuffixPercent == <<"%", Quote, ";">>

\* str::strip_suffix
StripSuffix(text, suffix) ==
    IF Len(text) >= Len(suffix)
       /\ SubSeq(text, Len(text) - Len(suffix) + 1, Len(text)) = suffix
    THEN Some(SubSeq(text, 1, Len(text) - Len(suffix)))
    ELSE None

RECURSIVE TrimEnd(_)
\* str::trim_end
TrimEnd(text) ==
    IF text # <<>> /\ text[Len(text)] = " "
    THEN TrimEnd(SubSeq(text, 1, Len(text) - 1))
    ELSE text

IsDigit(ch) == \E d \in 1..10 : Digit[d] = ch
DigitValue(ch) == (CHOOSE d \in 1..10 : Digit[d] = ch) - 1

RECURSIVE Decimal(_)
\* the value of a run of decimal digits
Decimal(digits) ==
    IF digits = <<>> THEN 0
    ELSE 10 * Decimal(SubSeq(digits, 1, Len(digits) - 1))
         + DigitValue(digits[Len(digits)])

AllDigits(text) == \A i \in DOMAIN text : IsDigit(text[i])

RECURSIVE StripZeros(_)
StripZeros(digits) ==
    IF Len(digits) > 1 /\ digits[1] = "0" THEN StripZeros(Tail(digits)) ELSE digits

RECURSIVE DigitsLeq(_, _)
\* comparison of two digit runs of the same length
DigitsLeq(x, y) ==
    IF x = <<>> THEN TRUE
    ELSE IF DigitValue(x[1]) # DigitValue(y[1])
    THEN DigitValue(x[1]) < DigitValue(y[1])
    ELSE DigitsLeq(Tail(x), Tail(y))

\* whether the number written by `digits` is at most the one written by `max`
Fits(digits, max) ==
    LET d == StripZeros(digits) IN
    Len(d) < Len(max) \/ (Len(d) = Len(max) /\ DigitsLeq(d, max))

\* u64::MAX and u8::MAX as written
U64MaxDigits ==
    <<"1", "8", "4", "4", "6", "7", "4", "4", "0", "7",
      "3", "7", "0", "9", "5", "5", "1", "6", "1", "5">>
U8MaxDigits == <<"2", "5", "5">>

\* str::parse::<u64> / ::<u8>: an optional '+', then at least one digit, and
\* the value within the type's range
ParseUnsigned(text, max) ==
    LET digits == IF text # <<>> /\ text[1] = "+" THEN Tail(text) ELSE text IN
    IF digits # <<>> /\ AllDigits(digits) /\ Fits(digits, max)
    THEN Some(Decimal(digits))
    ELSE None

\* str::parse::<f64> for plain decimal notation: an optional sign, digits,
\* optionally a '.' and more digits.  An f64 is kept in tenths; the documents
\* of the model carry at most one fractional digit.
ParseF64(text) ==
    LET signed == text # <<>> /\ text[1] \in {"+", "-"}
        body == IF signed THEN Tail(text) ELSE text
        dots == {i \in DOMAIN body : body[i] = "."}
        dot == IF dots = {} THEN Len(body) + 1 ELSE CHOOSE i \in dots : TRUE
        whole == SubSeq(body, 1, dot - 1)
        frac == SubSeq(body, dot + 1, Len(body))
        tenths == 10 * Decimal(whole)
                  + (IF frac = <<>> THEN 0 ELSE DigitValue(frac[1]))
    IN  IF Cardinality(dots) <= 1
           /\ AllDigits(whole) /\ AllDigits(frac)
           /\ (whole # <<>> \/ frac # <<>>)
        THEN Some(IF signed /\ text[1] = "-" THEN 0 - tenths ELSE tenths)
        ELSE None

\* unwrap_or_default() of a numeric parse
OrDefault(parsed) == IF IsSome(parsed) THEN Unwrap(parsed) ELSE 0

\* sn.strip_suffix("\";").map(|s| s.trim_end()): line 40
SerialOf(tail) ==
    LET s == StripSuffix(tail, SuffixPlain) IN
    IF IsSome(s) THEN Some(TrimEnd(Unwrap(s))) ELSE None

\* a current power that is None when its value is not a number
PowerOfStrict(tail) ==
    LET p == StripSuffix(tail, SuffixPlain) IN
    IF IsSome(p) THEN ParseUnsigned(Unwrap(p), U64MaxDigits) ELSE None

\* .strip_suffix("\";").map(|p| p.parse::<u64>().unwrap_or_default()): lines 42-44
PowerOf(tail) ==
    LET p == StripSuffix(tail, SuffixPlain) IN
    IF IsSome(p) THEN Some(OrDefault(ParseUnsigned(Unwrap(p), U64MaxDigits))) ELSE None

\* .strip_suffix("\";").map(|p| p.parse::<f64>().unwrap_or_default()): lines 46-52
YieldOf(tail) ==
    LET p == StripSuffix(tail, SuffixPlain) IN
    IF IsSome(p) THEN Some(OrDefault(ParseF64(Unwrap(p)))) ELSE None

\* sta_ssid.strip_suffix("\";"): line 54
SsidOf(tail) == StripSuffix(tail, SuffixPlain)

\* .strip_suffix("%\";").map(|p| p.parse::<u8>().unwrap_or_default()): lines 56-58
QualityOf(tail) ==
    LET p == StripSuffix(tail, SuffixPercent) IN
    IF IsSome(p) THEN Some(OrDefault(ParseUnsigned(Unwrap(p), U8MaxDigits))) ELSE None

\* the six Options of try_from before the loop: lines 31-36
DeyeFieldsNone ==
    [serial_number |-> None, current_power |-> None, yield_today |-> None,
     total_yield |-> None, wireless_router_ssid |-> None,
     wireless_signal_quality |-> None]

\* a loop body that keeps the value an assignment already has
DeyeScanLineKeepsFirst(f, line) ==
    CASE line.name = "webdata_sn" /\ IsNone(f.serial_number) ->
            [f EXCEPT !.serial_number = SerialOf(line.tail)]
      [] line.name = "webdata_now_p" /\ IsNone(f.current_power) ->
            [f EXCEPT !.current_power = PowerOf(line.tail)]
      [] line.name = "webdata_today_e" /\ IsNone(f.yield_today) ->
            [f EXCEPT !.yield_today = YieldOf(line.tail)]
      [] line.name = "webdata_total_e" /\ IsNone(f.total_yield) ->
            [f EXCEPT !.total_yield = YieldOf(line.tail)]
      [] line.name = "cover_sta_ssid" /\ IsNone(f.wireless_router_ssid) ->
            [f EXCEPT !.wireless_router_ssid = SsidOf(line.tail)]
      [] line.name = "cover_sta_rssi" /\ IsNone(f.wireless_signal_quality) ->
            [f EXCEPT !.wireless_signal_quality = QualityOf(line.tail)]
      [] OTHER -> f

\* the body of the loop over the lines: lines 38-60
DeyeScanLine(f, line) ==
    CASE line.name = "webdata_sn" ->
            [f EXCEPT !.serial_number = SerialOf(line.tail)]
      [] line.name = "webdata_now_p" ->
            [f EXCEPT !.current_power = PowerOf(line.tail)]
      [] line.name = "webdata_today_e" ->
            [f EXCEPT !.yield_today = YieldOf(line.tail)]
      [] line.name = "webdata_total_e" ->
            [f EXCEPT !.total_yield = YieldOf(line.tail)]
      [] line.name = "cover_sta_ssid" ->
            [f EXCEPT !.wireless_router_ssid = SsidOf(line.tail)]
      [] line.name = "cover_sta_rssi" ->
            [f EXCEPT !.wireless_signal_quality = QualityOf(line.tail)]
      [] OTHER -> f

RECURSIVE DeyeScan(_, _)
\* for line in data.lines(): line 37
DeyeScan(f, lines) ==
    IF lines = <<>> THEN f
    ELSE DeyeScan(DeyeScanLine(f, Head(lines)), Tail(lines))

\* #[derive(Default)] DeyeSolarData
DeyeSolarDataDefault ==
    [serial_number |-> <<>>, current_power |-> 0, yield_today |-> 0,
     total_yield |-> 0, wireless_router_ssid |-> <<>>,
     wireless_signal_quality |-> 0]

\* a try_from that reports the last assignment not found instead of the first
DeyeTryFromNamesLast(data) ==
    LET f == DeyeScan(DeyeFieldsNone, data)
        Missing(field) == [ok |-> FALSE, error |-> field, data |-> DeyeSolarDataDefault]
    IN  IF IsNone(f.wireless_signal_quality) THEN Missing("cover_sta_rssi")
        ELSE IF IsNone(f.wireless_router_ssid) THEN Missing("cover_sta_ssid")
        ELSE IF IsNone(f.total_yield) THEN Missing("webdata_total_e")
        ELSE IF IsNone(f.yield_today) THEN Missing("webdata_today_e")
        ELSE IF IsNone(f.current_power) THEN Missing("webdata_now_p")
        ELSE IF IsNone(f.serial_number) THEN Missing("webdata_sn")
        ELSE [ok |-> TRUE, error |-> "",
              data |-> [serial_number |-> Unwrap(f.serial_number),
                        current_power |-> Unwrap(f.current_power),
                        yield_today |-> Unwrap(f.yield_today),
                        total_yield |-> Unwrap(f.total_yield),
                        wireless_router_ssid |-> Unwrap(f.wireless_router_ssid),
                        wireless_signal_quality |-> Unwrap(f.wireless_signal_quality)]]

\* impl TryFrom<String> for DeyeSolarData: [ok, data] or [ok, error]
DeyeTryFrom(data) ==
    LET f == DeyeScan(DeyeFieldsNone, data)
        Missing(field) == [ok |-> FALSE, error |-> field, data |-> DeyeSolarDataDefault]
    IN  IF IsNone(f.serial_number) THEN Missing("webdata_sn")
        ELSE IF IsNone(f.current_power) THEN Missing("webdata_now_p")
        ELSE IF IsNone(f.yield_today) THEN Missing("webdata_today_e")
        ELSE IF IsNone(f.total_yield) THEN Missing("webdata_total_e")
        ELSE IF IsNone(f.wireless_router_ssid) THEN Missing("cover_sta_ssid")
        ELSE IF IsNone(f.wireless_signal_quality) THEN Missing("cover_sta_rssi")
        ELSE [ok |-> TRUE, error |-> "",
              data |-> [serial_number |-> Unwrap(f.serial_number),
                        current_power |-> Unwrap(f.current_power),
                        yield_today |-> Unwrap(f.yield_today),
                        total_yield |-> Unwrap(f.total_yield),
                        wireless_router_ssid |-> Unwrap(f.wireless_router_ssid),
                        wireless_signal_quality |-> Unwrap(f.wireless_signal_quality)]]

(* ================ deye_solar.rs: FetcherDeyeSolarAdaptor ============== *)
\* FetcherAdaptor::new
DeyeNew == [state |-> [tag |-> "Status"], meter_solar |-> DeyeSolarDataDefault]

\* FetcherAdaptor::fetch
DeyeFetch(self) == [self |-> self, ret |-> "Http"]

\* FetcherAdaptor::create_http_request: always GET /status.html
DeyeCreateHttpRequest(self) == Some([kind |-> "data", tag |-> self.state])

\* data.contains("var status_c = ")
HasSentinel(data) == \E i \in DOMAIN data : data[i].name = "status_c"

RECURSIVE DeyeReadFramesToEnd(_, _, _)
\* a loop that never looks for the sentinel
DeyeReadFramesToEnd(data, frames, taken) ==
    IF frames = <<>> THEN [data |-> data, taken |-> taken, error |-> "none"]
    ELSE LET next == Head(frames) IN
         IF next.kind = "error"
         THEN [data |-> data, taken |-> taken + 1, error |-> "transport"]
         ELSE IF next.kind = "data"
         THEN IF ~next.utf8
              THEN [data |-> data, taken |-> taken + 1, error |-> "utf8"]
              ELSE DeyeReadFramesToEnd(data \o next.lines, Tail(frames), taken + 1)
         ELSE DeyeReadFramesToEnd(data, Tail(frames), taken + 1)

RECURSIVE DeyeReadFrames(_, _, _)
\* the while-let loop over the body frames: lines 206-221.  A frame is
\* [kind, utf8, lines] with kind "data", "trailers" or "error"; the result is
\* the text read, the number of frames taken from the stream and the error.
DeyeReadFrames(data, frames, taken) ==
    IF frames = <<>> THEN [data |-> data, taken |-> taken, error |-> "none"]
    ELSE LET next == Head(frames) IN
         IF next.kind = "error"
         THEN [data |-> data, taken |-> taken + 1, error |-> "transport"]
         ELSE IF next.kind = "data"
         THEN IF ~next.utf8
              THEN [data |-> data, taken |-> taken + 1, error |-> "utf8"]
              ELSE IF HasSentinel(data \o next.lines)
              THEN [data |-> data \o next.lines, taken |-> taken + 1,
                    error |-> "none"]
              ELSE DeyeReadFrames(data \o next.lines, Tail(frames), taken + 1)
         ELSE DeyeReadFrames(data, Tail(frames), taken + 1)

\* lines 223-227: parse what was read and publish it
DeyeParsed(self, read) ==
    LET solar_data == DeyeTryFrom(read.data) IN
    IF solar_data.ok
    THEN Outcome([self EXCEPT !.meter_solar = solar_data.data],
                 "None", "ok", <<"meter_solar">>)
    ELSE Outcome(self, "Err", solar_data.error, <<>>)

\* a handler that asks for the request again on a status it does not know
DeyeProcessHttpResponseRetries(self, response) ==
    IF response.status = 200
    THEN LET read == DeyeReadFrames(<<>>, response.frames, 0) IN
         IF read.error # "none"
         THEN Outcome(self, "Err", read.error, <<>>)
         ELSE DeyeParsed(self, read)
    ELSE IF response.status = 401
    THEN IF response.www_authenticate
         THEN Outcome(self, "Http", "unauthorized", <<>>)
         ELSE Outcome(self, "Err", "unauthorized", <<>>)
    ELSE Outcome(self, "Http", "status", <<>>)

\* FetcherAdaptor::process_http_response
DeyeProcessHttpResponse(self, response) ==
    IF response.status = 200
    THEN LET read == DeyeReadFrames(<<>>, response.frames, 0) IN
         IF read.error # "none"
         THEN Outcome(self, "Err", read.error, <<>>)
         ELSE DeyeParsed(self, read)
    ELSE IF response.status = 401
    THEN IF response.www_authenticate
         THEN Outcome(self, "Http", "unauthorized", <<>>)
         ELSE Outcome(self, "Err", "unauthorized", <<>>)
    ELSE Outcome(self, "Err", "status", <<>>)

(* ============================ state ================================== *)
VARIABLES
    profile,    \* which adaptor this device instance is
    pc,         \* "idle" | "build" | "await" | "panic": the processor's loop
    cycle,      \* fetch() calls so far
    req,        \* the request last built (None before the first)
    last,       \* the response last processed, the adaptor before it and
                \* what was returned for it
    calls,      \* data calls built in the current cycle, in order
    sends,      \* watch-channel sends of the current cycle
    unauth,     \* 401 answers of the current cycle
    snap0,      \* what the watch channels held when the cycle started
    empties,    \* empty-array bodies the device has answered with so far
    fb,         \* the FetcherFreeboxAdaptor
    bb,         \* the FetcherBBoxAdaptor
    dy,         \* the FetcherDeyeSolarAdaptor
    mg_stats,   \* merge walk: the snapshot merged into
    mg_prev,    \* merge walk: the snapshot before the last merge
    mg_other,   \* merge walk: the fragment last merged
    mg_count,   \* merge walk: merges so far
    sq_n,       \* sequencer walk: the port count handed to next_state
    sq_state,   \* sequencer walk: the current tag
    sq_steps,   \* sequencer walk: next_state applications so far
    pubs,       \* reader walk: the values sent on each watch channel, in order
    seen        \* reader walk: what the reader got from its last borrow()

drvVars == <<pc, cycle, req, last, calls, sends, unauth, snap0, empties>>
sqVars == <<sq_n, sq_state, sq_steps>>
mgVars == <<mg_stats, mg_prev, mg_other, mg_count>>
rdVars == <<pubs, seen>>
vars == <<profile, pc, cycle, req, last, calls, sends, unauth, snap0, empties,
          fb, bb, dy,
          mg_stats, mg_prev, mg_other, mg_count, sq_n, sq_state, sq_steps,
          pubs, seen>>

\* no response processed yet
NoResponse == [transport |-> "none", status |-> 0]
NoLast == [kind |-> "none", tag |-> [tag |-> "none"], status |-> 0,
           why |-> "none", ret |-> "none",
           response |-> NoResponse, before |-> None, taken |-> 0]

\* the watch channels of the Freebox and BBox adaptors
WatchChannels ==
    {"meter_conn", "meter_system", "meter_switch", "meter_eth", "meter_bbox"}

\* the value a watch channel of the instance's adaptor holds
Held(ch) == IF ch = "meter_bbox" THEN bb[ch] ELSE fb[ch]

\* every adaptor as constructed, the processor idle, no walk in progress
InitCommon ==
    /\ pc = "idle"
    /\ cycle = 0
    /\ req = None
    /\ last = NoLast
    /\ calls = <<>>
    /\ sends = 0
    /\ unauth = 0
    /\ snap0 = <<>>
    /\ empties = 0
    /\ fb = FreeboxNew
    /\ bb = BBoxNew
    /\ dy = DeyeNew
    /\ pubs = [ch \in WatchChannels |->
                 <<IF ch = "meter_bbox" THEN BBoxNew[ch] ELSE FreeboxNew[ch]>>]
    /\ seen = None

InitWalk ==
    /\ sq_n = 0
    /\ sq_state = FreeboxDefault
    /\ sq_steps = 0
    /\ mg_stats = BBoxApiResponseDefault
    /\ mg_prev = BBoxApiResponseDefault
    /\ mg_other = BBoxApiResponseDefault
    /\ mg_count = 0

\* a processor that builds a request after every Ok(..)
AfterRetAlwaysBuilds(ret) ==
    CASE ret \in {"Http", "None"} -> "build"
      [] ret = "Panic" -> "panic"
      [] OTHER -> "idle"

\* the position of the processor's loop after a handler returned `ret`
AfterRet(ret) ==
    CASE ret = "Http" -> "build"
      [] ret = "Panic" -> "panic"
      [] OTHER -> "idle"

(* ===================== the Freebox device instance ==================== *)
Challenges == {"ch1", "ch2"}
Tokens == {"tok1"}

\* the bodies a Freebox may write in answer to a request of `kind` in cycle c;
\* data values carry the cycle they were read in
FreeboxBodies(kind, c) ==
    {Malformed, Envelope(Some(FALSE), Absent)}
    \cup (CASE kind = "challenge" ->
                 {Envelope(Some(TRUE), Object([challenge |-> ch])) : ch \in Challenges}
                 \cup {Envelope(Some(TRUE), Object([uid |-> "x"])),
                       Envelope(Some(TRUE), Object([challenge |-> JsonNumber])),
                       Envelope(Some(FALSE), Object([challenge |-> "ch1"]))}
            [] kind = "session" ->
                 {Envelope(Some(TRUE), Object([session_token |-> t])) : t \in Tokens}
                 \cup {Envelope(Some(TRUE), Object([uid |-> "x"])),
                       Envelope(Some(TRUE), Object([session_token |-> JsonNumber]))}
            [] OTHER ->
                 {Envelope(Some(TRUE), Object([bytes |-> c]))}
                 \cup {Envelope(Some(TRUE), Array([i \in 1..n |-> [id |-> i, link |-> c]]))
                         : n \in 0..MaxPorts}
                 \cup {Envelope(Some(FALSE), Array(<<[id |-> 1, link |-> c]>>))})

Response(transport, status, body) ==
    [transport |-> transport, status |-> status, body |-> body]

FreeboxResponses(kind, c) ==
    {Response(t, 0, Malformed) : t \in {"canceled", "error"}}
    \cup {Response("ok", s, Malformed) : s \in {401, 404, 500}}
    \cup {Response("ok", 200, b) : b \in FreeboxBodies(kind, c)}

\* what a reader of the four Freebox watch channels sees
FreeboxPublished(self) ==
    [meter_conn |-> self.meter_conn, meter_system |-> self.meter_system,
     meter_switch |-> self.meter_switch, meter_eth |-> self.meter_eth]

FbFetch ==
    /\ profile = "freebox"
    /\ pc = "idle"
    /\ cycle < MaxCycles
    /\ LET out == FreeboxFetch(fb) IN
       /\ fb' = out.self
       /\ pc' = AfterRet(out.ret)
    /\ cycle' = cycle + 1
    /\ calls' = <<>>
    /\ sends' = 0
    /\ unauth' = 0
    /\ snap0' = FreeboxPublished(fb)
    /\ last' = NoLast
    /\ UNCHANGED <<profile, req, empties, bb, dy, sqVars, mgVars, rdVars>>

FbCreateHttpRequest ==
    /\ profile = "freebox"
    /\ pc = "build"
    /\ LET r == FreeboxCreateHttpRequest(fb) IN
       IF IsSome(r)
       THEN /\ req' = r
            /\ pc' = "await"
            /\ calls' = IF Unwrap(r).kind = "data"
                        THEN Append(calls, Unwrap(r).tag) ELSE calls
            /\ UNCHANGED last
       ELSE /\ pc' = "idle"
            /\ last' = [kind |-> "build", tag |-> fb.state, status |-> 0,
                        why |-> "no_uri", ret |-> "Err",
                        response |-> NoResponse, before |-> Some(fb), taken |-> 0]
            /\ UNCHANGED <<req, calls>>
    /\ UNCHANGED <<profile, cycle, sends, unauth, snap0, empties, fb, bb, dy, sqVars, mgVars, rdVars>>

FbProcessHttpResponse ==
    /\ profile = "freebox"
    /\ pc = "await"
    /\ \E response \in FreeboxResponses(Unwrap(req).kind, cycle) :
         LET out == FreeboxProcessHttpResponse(fb, response) IN
         /\ fb' = out.self
         /\ pc' = AfterRet(out.ret)
         /\ sends' = sends + Len(out.sent)
         /\ unauth' = IF response.status = 401 THEN unauth + 1 ELSE unauth
         /\ last' = [kind |-> Unwrap(req).kind, tag |-> fb.state,
                     status |-> response.status, why |-> out.why, ret |-> out.ret,
                     response |-> response, before |-> Some(fb), taken |-> 0]
    /\ UNCHANGED <<profile, cycle, req, calls, snap0, empties, bb, dy, sqVars, mgVars, rdVars>>

NextFreebox == FbFetch \/ FbCreateHttpRequest \/ FbProcessHttpResponse

(* ====================== the BBox device instance ====================== *)
BBoxIds == {"id1"}

\* the fragment a BBox writes in answer to the call of `tag` in cycle c; values
\* carry the cycle they were read in
BBoxFragment(tag, c) ==
    CASE tag.tag = "Cpu" -> [BBoxApiResponseDefault EXCEPT !.device = Some([cpu |-> c])]
      [] tag.tag = "Mem" -> [BBoxApiResponseDefault EXCEPT !.device = Some([mem |-> c])]
      [] tag.tag = "Wan" -> [BBoxApiResponseDefault EXCEPT !.wan = Some([ip |-> c])]
      [] tag.tag = "Lan" -> [BBoxApiResponseDefault EXCEPT !.lan = Some([stats |-> c])]
      [] OTHER -> [BBoxApiResponseDefault EXCEPT !.wireless =
                     Some([ssid |-> [obj |-> TRUE,
                                     id |-> Some(IF tag.high THEN 5 ELSE 24),
                                     v |-> c]])]

BBoxBody(wf, items) == [wf |-> wf, items |-> items]

\* an array of two fragments that both carry the key "cpu": the first with a
\* value of no cycle and a key of its own, the second the fragment of the call
BBoxTwoFragments(c) ==
    <<[BBoxApiResponseDefault EXCEPT !.device = Some([cpu |-> 0, model |-> c])],
      BBoxFragment(BbTag("Cpu"), c)>>

\* the bodies of a 200: not JSON, an empty array, the fragment of the call, or
\* (for the Cpu call) an array of two fragments
BBoxBodies(tag, c) ==
    {BBoxBody(FALSE, <<>>), BBoxBody(TRUE, <<>>),
     BBoxBody(TRUE, <<BBoxFragment(tag, c)>>)}
    \cup (IF tag.tag = "Cpu" THEN {BBoxBody(TRUE, BBoxTwoFragments(c))} ELSE {})

BBoxResponse(transport, status, cookies, body) ==
    [transport |-> transport, status |-> status, cookies |-> cookies, body |-> body]

Cookie(name, value) == [name |-> name, value |-> value]

BBoxResponses(kind, tag, c) ==
    {BBoxResponse(t, 0, <<>>, BBoxBody(FALSE, <<>>)) : t \in {"canceled", "error"}}
    \cup {BBoxResponse("ok", s, <<>>, BBoxBody(FALSE, <<>>)) : s \in {401, 404, 500}}
    \cup (IF kind = "login"
          THEN {BBoxResponse("ok", 200, <<>>, BBoxBody(FALSE, <<>>)),
                BBoxResponse("ok", 200, <<Cookie("lang", "fr")>>, BBoxBody(FALSE, <<>>))}
               \cup {BBoxResponse("ok", 200, <<Cookie("BBOX_ID", id), Cookie("lang", "fr")>>,
                                  BBoxBody(FALSE, <<>>)) : id \in BBoxIds}
          ELSE {BBoxResponse("ok", 200, <<>>, b) : b \in BBoxBodies(tag, c)})

IsEmptyArray(response) ==
    response.transport = "ok" /\ response.status = 200
    /\ response.body = BBoxBody(TRUE, <<>>)

\* what a reader of the BBox watch channel sees
BBoxPublished(self) == self.meter_bbox

BbFetch ==
    /\ profile = "bbox"
    /\ pc = "idle"
    /\ cycle < MaxCycles
    /\ LET out == BBoxFetch(bb) IN
       /\ bb' = out.self
       /\ pc' = AfterRet(out.ret)
    /\ cycle' = cycle + 1
    /\ calls' = <<>>
    /\ sends' = 0
    /\ unauth' = 0
    /\ snap0' = BBoxPublished(bb)
    /\ last' = NoLast
    /\ UNCHANGED <<profile, req, empties, fb, dy, sqVars, mgVars, rdVars>>

BbCreateHttpRequest ==
    /\ profile = "bbox"
    /\ pc = "build"
    /\ LET r == BBoxCreateHttpRequest(bb) IN
       IF IsSome(r)
       THEN /\ req' = r
            /\ pc' = "await"
            /\ calls' = IF Unwrap(r).kind = "data"
                        THEN Append(calls, Unwrap(r).tag) ELSE calls
            /\ UNCHANGED last
       ELSE /\ pc' = "idle"
            /\ last' = [kind |-> "build", tag |-> bb.state, status |-> 0,
                        why |-> "no_uri", ret |-> "Err",
                        response |-> NoResponse, before |-> Some(bb), taken |-> 0]
            /\ UNCHANGED <<req, calls>>
    /\ UNCHANGED <<profile, cycle, sends, unauth, snap0, empties, fb, bb, dy, sqVars, mgVars, rdVars>>

BbProcessHttpResponse ==
    /\ profile = "bbox"
    /\ pc = "await"
    /\ \E response \in BBoxResponses(Unwrap(req).kind, bb.state, cycle) :
         /\ response.status = 401 => unauth < MaxUnauthorized
         /\ IsEmptyArray(response) => empties < MaxEmpty
         /\ empties' = IF IsEmptyArray(response) THEN empties + 1 ELSE empties
         /\ LET out == BBoxProcessHttpResponse(bb, response) IN
            /\ bb' = out.self
            /\ pc' = AfterRet(out.ret)
            /\ sends' = sends + Len(out.sent)
            /\ unauth' = IF response.status = 401 THEN unauth + 1 ELSE unauth
            /\ last' = [kind |-> Unwrap(req).kind, tag |-> bb.state,
                        status |-> response.status, why |-> out.why, ret |-> out.ret,
                        response |-> response, before |-> Some(bb), taken |-> 0]
    /\ UNCHANGED <<profile, cycle, req, calls, snap0, fb, dy, sqVars, mgVars, rdVars>>

NextBBox == BbFetch \/ BbCreateHttpRequest \/ BbProcessHttpResponse

(* ====================== the Deye device instance ====================== *)
\* the six assignments of a status document read in cycle c; the current
\* power carries the cycle
DeyeAssignments(c) ==
    <<Line("webdata_sn", <<"X", "1", " ", Quote, ";">>),
      Line("webdata_now_p", <<Digit[c + 1], Quote, ";">>),
      Line("webdata_today_e", <<"3", ".", "4", Quote, ";">>),
      Line("webdata_total_e", <<"5", "0", "0", ".", "1", Quote, ";">>),
      Line("cover_sta_ssid", <<"h", "o", "m", "e", Quote, ";">>),
      Line("cover_sta_rssi", <<"8", "0", "%", Quote, ";">>)>>

Html == Line("html", <<>>)
Sentinel == Line("status_c", <<"0", Quote, ";">>)

RECURSIVE Kept(_, _)
\* a sequence without the elements whose index is in absent
Kept(seq, absent) ==
    IF seq = <<>> THEN <<>>
    ELSE Kept(SubSeq(seq, 1, Len(seq) - 1), absent)
         \o (IF Len(seq) \in absent THEN <<>> ELSE <<seq[Len(seq)]>>)

\* the documents an inverter may write in cycle c: the complete one, and the
\* ones lacking some of the assignments
DeyeDocuments(c) ==
    {<<Html>> \o Kept(DeyeAssignments(c), absent) \o <<Sentinel, Html>>
        : absent \in SUBSET (1..6)}

Frame(kind, utf8, lines) == [kind |-> kind, utf8 |-> utf8, lines |-> lines]

\* an assignment of the current power that no document of a cycle holds
LatePower == Line("webdata_now_p", <<"9", Quote, ";">>)

\* the ways a document arrives: in one frame, cut in two, cut short by a
\* transport error, with bytes that are not UTF-8, followed by a frame that
\* comes after the sentinel, or without the sentinel at all
DeyeFrames(c) ==
    UNION {
        {<<Frame("data", TRUE, doc)>>,
         <<Frame("data", TRUE, SubSeq(doc, 1, 3)),
           Frame("data", TRUE, SubSeq(doc, 4, Len(doc))),
           Frame("trailers", TRUE, <<>>)>>,
         <<Frame("data", TRUE, SubSeq(doc, 1, 3)), Frame("error", TRUE, <<>>)>>,
         <<Frame("data", FALSE, <<>>)>>,
         <<Frame("data", TRUE, SubSeq(doc, 1, Len(doc) - 1)),
           Frame("data", TRUE, <<LatePower>>),
           Frame("trailers", TRUE, <<>>)>>,
         <<Frame("data", TRUE, <<Head(doc)>>),
           Frame("data", TRUE, SubSeq(doc, 2, Len(doc) - 2)),
           Frame("data", TRUE, <<LatePower>>)>>}
        : doc \in DeyeDocuments(c)}

DeyeResponse(status, www_authenticate, frames) ==
    [status |-> status, www_authenticate |-> www_authenticate, frames |-> frames]

DeyeResponses(c) ==
    {DeyeResponse(401, h, <<>>) : h \in BOOLEAN}
    \cup {DeyeResponse(s, FALSE, <<>>) : s \in {404, 500}}
    \cup {DeyeResponse(200, FALSE, frames) : frames \in DeyeFrames(c)}

\* what a reader of the Deye watch channel sees
DeyePublished(self) == self.meter_solar

DyFetch ==
    /\ profile = "deye"
    /\ pc = "idle"
    /\ cycle < MaxCycles
    /\ LET out == DeyeFetch(dy) IN
       /\ dy' = out.self
       /\ pc' = AfterRet(out.ret)
    /\ cycle' = cycle + 1
    /\ calls' = <<>>
    /\ sends' = 0
    /\ unauth' = 0
    /\ snap0' = DeyePublished(dy)
    /\ last' = NoLast
    /\ UNCHANGED <<profile, req, empties, fb, bb, sqVars, mgVars, rdVars>>

DyCreateHttpRequest ==
    /\ profile = "deye"
    /\ pc = "build"
    /\ LET r == DeyeCreateHttpRequest(dy) IN
       /\ req' = r
       /\ pc' = "await"
       /\ calls' = Append(calls, Unwrap(r).tag)
    /\ UNCHANGED <<profile, cycle, last, sends, unauth, snap0, empties,
                   fb, bb, dy, sqVars, mgVars, rdVars>>

DyProcessHttpResponse ==
    /\ profile = "deye"
    /\ pc = "await"
    /\ \E response \in DeyeResponses(cycle) :
         /\ response.status = 401 /\ response.www_authenticate
                => unauth < MaxUnauthorized
         /\ LET out == DeyeProcessHttpResponse(dy, response) IN
            /\ dy' = out.self
            /\ pc' = AfterRet(out.ret)
            /\ sends' = sends + Len(out.sent)
            /\ unauth' = IF response.status = 401 THEN unauth + 1 ELSE unauth
            /\ last' = [kind |-> Unwrap(req).kind, tag |-> dy.state,
                        status |-> response.status, why |-> out.why, ret |-> out.ret,
                        response |-> response, before |-> Some(dy),
                        taken |-> IF response.status = 200
                                  THEN DeyeReadFrames(<<>>, response.frames, 0).taken
                                  ELSE 0]
    /\ UNCHANGED <<profile, cycle, req, calls, snap0, empties, fb, bb, sqVars, mgVars, rdVars>>

NextDeye == DyFetch \/ DyCreateHttpRequest \/ DyProcessHttpResponse

(* ====================== one device instance =========================== *)
Init ==
    /\ profile \in {"freebox", "bbox", "deye"}
    /\ InitCommon
    /\ InitWalk

Next == NextFreebox \/ NextBBox \/ NextDeye

Spec == Init /\ [][Next]_vars

(* ========================= the merge's walk =========================== *)
\* the maps of the walk: over the keys a, b, c, with the values each may take
MergeKeys == {"a", "b", "c"}
MergeValues == [a |-> {1}, b |-> {2, 3}, c |-> {4}]
MergeMaps ==
    {m \in UNION {[D -> 1..4] : D \in SUBSET MergeKeys} :
        \A k \in DOMAIN m : m[k] \in MergeValues[k]}

\* the values an "ssid" member may have: an object with a numeric id, an
\* object without, and something that is no object
SsidValues ==
    {[obj |-> TRUE, id |-> Some(n), v |-> x] : n \in {24, 5}, x \in {1, 2}}
    \cup {[obj |-> TRUE, id |-> None, v |-> 1], [obj |-> FALSE, id |-> None, v |-> 1]}
WirelessMaps ==
    {[ssid |-> w] : w \in SsidValues}
    \cup {[ssid |-> w, channel |-> w] : w \in SsidValues}
    \cup {[channel |-> w] : w \in SsidValues} \cup {EmptyMap}

\* the fragments of the walk: one category present, all four, none, or all
\* four present with no keys
MergeFragments ==
    {[BBoxApiResponseDefault EXCEPT !.device = Some(m)] : m \in MergeMaps}
    \cup {[BBoxApiResponseDefault EXCEPT !.wan = Some(m)] : m \in MergeMaps}
    \cup {[BBoxApiResponseDefault EXCEPT !.lan = Some(m)] : m \in MergeMaps}
    \cup {[BBoxApiResponseDefault EXCEPT !.wireless = Some(w)] : w \in WirelessMaps}
    \cup {[device |-> Some(m), wan |-> Some(m), lan |-> Some(m), wireless |-> Some(w)]
            : m \in {[a |-> 1, b |-> 2], [b |-> 3, c |-> 4]},
              w \in {[ssid |-> x] : x \in SsidValues}}
    \cup {BBoxApiResponseDefault,
          [device |-> Some(EmptyMap), wan |-> Some(EmptyMap), lan |-> Some(EmptyMap),
           wireless |-> Some(EmptyMap)]}

MergeInit ==
    /\ profile = "merge"
    /\ InitCommon
    /\ InitWalk

MergeStep ==
    /\ profile = "merge"
    /\ mg_count < MaxMerges
    /\ \E other \in MergeFragments :
         /\ mg_prev' = mg_stats
         /\ mg_other' = other
         /\ mg_stats' = Merge(mg_stats, other)
    /\ mg_count' = mg_count + 1
    /\ UNCHANGED <<profile, drvVars, fb, bb, dy, sqVars, rdVars>>

MergeNext == MergeStep

SpecMerge == MergeInit /\ [][MergeNext]_vars

(* ======================= the sequencer's walk ========================= *)
\* The walk of the sequencer alone, for every u8 port count.
SeqInit ==
    /\ profile = "walk"
    /\ InitCommon
    /\ sq_n \in 0..U8Max
    /\ sq_state = FreeboxDefault
    /\ sq_steps = 0
    /\ mg_stats = BBoxApiResponseDefault
    /\ mg_prev = BBoxApiResponseDefault
    /\ mg_other = BBoxApiResponseDefault
    /\ mg_count = 0

SeqStep ==
    /\ profile = "walk"
    /\ sq_state # FbEnd
    /\ sq_state' = FreeboxNextState(sq_state, sq_n)
    /\ sq_steps' = sq_steps + 1
    /\ UNCHANGED <<sq_n, profile, drvVars, fb, bb, dy, mgVars, rdVars>>

SeqNext == SeqStep

SpecSeq == SeqInit /\ [][SeqNext]_vars

(* ========================= the re-login walk ========================== *)
\* A BBox whose login always succeeds and whose data calls answer 401 or the
\* fragment of the call; a Deye inverter that answers 401 with the
\* WWW-Authenticate header or the complete document.
RetryBBoxResponses(kind, tag, c) ==
    IF kind = "login"
    THEN {BBoxResponse("ok", 200, <<Cookie("BBOX_ID", id)>>, BBoxBody(FALSE, <<>>))
            : id \in BBoxIds}
    ELSE {BBoxResponse("ok", 401, <<>>, BBoxBody(FALSE, <<>>)),
          BBoxResponse("ok", 200, <<>>, BBoxBody(TRUE, <<BBoxFragment(tag, c)>>))}

RetryDeyeResponses(c) ==
    {DeyeResponse(401, TRUE, <<>>),
     DeyeResponse(200, FALSE,
                  <<Frame("data", TRUE, <<Html>> \o DeyeAssignments(c) \o <<Sentinel>>)>>)}

RetryInit ==
    /\ profile \in {"bbox", "deye"}
    /\ InitCommon
    /\ InitWalk

RetryBbProcessHttpResponse ==
    /\ profile = "bbox"
    /\ pc = "await"
    /\ \E response \in RetryBBoxResponses(Unwrap(req).kind, bb.state, cycle) :
         /\ response.status = 401 => unauth < MaxRetries
         /\ LET out == BBoxProcessHttpResponse(bb, response) IN
            /\ bb' = out.self
            /\ pc' = AfterRet(out.ret)
            /\ sends' = sends + Len(out.sent)
            /\ unauth' = IF response.status = 401 THEN unauth + 1 ELSE unauth
            /\ last' = [kind |-> Unwrap(req).kind, tag |-> bb.state,
                        status |-> response.status, why |-> out.why, ret |-> out.ret,
                        response |-> response, before |-> Some(bb), taken |-> 0]
    /\ UNCHANGED <<profile, cycle, req, calls, snap0, empties, fb, dy, sqVars, mgVars, rdVars>>

RetryDyProcessHttpResponse ==
    /\ profile = "deye"
    /\ pc = "await"
    /\ \E response \in RetryDeyeResponses(cycle) :
         /\ response.status = 401 => unauth < MaxRetries
         /\ LET out == DeyeProcessHttpResponse(dy, response) IN
            /\ dy' = out.self
            /\ pc' = AfterRet(out.ret)
            /\ sends' = sends + Len(out.sent)
            /\ unauth' = IF response.status = 401 THEN unauth + 1 ELSE unauth
            /\ last' = [kind |-> Unwrap(req).kind, tag |-> dy.state,
                        status |-> response.status, why |-> out.why, ret |-> out.ret,
                        response |-> response, before |-> Some(dy),
                        taken |-> IF response.status = 200
                                  THEN DeyeReadFrames(<<>>, response.frames, 0).taken
                                  ELSE 0]
    /\ UNCHANGED <<profile, cycle, req, calls, snap0, empties, fb, bb, sqVars, mgVars, rdVars>>

RetryNext ==
    \/ BbFetch \/ BbCreateHttpRequest \/ RetryBbProcessHttpResponse
    \/ DyFetch \/ DyCreateHttpRequest \/ RetryDyProcessHttpResponse

SpecRetry == RetryInit /\ [][RetryNext]_vars

(* ========================== the reader walk =========================== *)
\* A Freebox and a BBox that answer every request as asked, and a reader (a
\* gauge callback holding a clone of the receiver) that may borrow the value
\* of a channel between any two steps of the adaptor.
WatchFreeboxResponses(kind, c) ==
    CASE kind = "challenge" ->
            {Response("ok", 200, Envelope(Some(TRUE), Object([challenge |-> "ch1"])))}
      [] kind = "session" ->
            {Response("ok", 200, Envelope(Some(TRUE), Object([session_token |-> "tok1"])))}
      [] OTHER ->
            {Response("ok", 200, Envelope(Some(TRUE), Object([bytes |-> c])))}
            \cup {Response("ok", 200,
                           Envelope(Some(TRUE), Array([i \in 1..n |-> [id |-> i, link |-> c]])))
                    : n \in 1..MaxPorts}

WatchBBoxResponses(kind, tag, c) ==
    IF kind = "login"
    THEN {BBoxResponse("ok", 200, <<Cookie("BBOX_ID", id)>>, BBoxBody(FALSE, <<>>))
            : id \in BBoxIds}
    ELSE {BBoxResponse("ok", 200, <<>>, BBoxBody(TRUE, <<BBoxFragment(tag, c)>>))}
         \cup (IF tag.tag = "Cpu"
               THEN {BBoxResponse("ok", 200, <<>>, BBoxBody(TRUE, BBoxTwoFragments(c)))}
               ELSE {})

\* the channels the instance's adaptor owns
OwnChannels ==
    IF profile = "bbox" THEN {"meter_bbox"} ELSE WatchChannels \ {"meter_bbox"}

\* the log of the values sent, after a handler that sent on the channels
\* `sent` and left the adaptor as `self`
Logged(sent, self) ==
    [ch \in WatchChannels |->
        IF \E i \in DOMAIN sent : sent[i] = ch
        THEN Append(pubs[ch], self[ch]) ELSE pubs[ch]]

WatchInit ==
    /\ profile \in {"freebox", "bbox"}
    /\ InitCommon
    /\ InitWalk

WatchFbProcessHttpResponse ==
    /\ profile = "freebox"
    /\ pc = "await"
    /\ \E response \in WatchFreeboxResponses(Unwrap(req).kind, cycle) :
         LET out == FreeboxProcessHttpResponse(fb, response) IN
         /\ fb' = out.self
         /\ pc' = AfterRet(out.ret)
         /\ sends' = sends + Len(out.sent)
         /\ pubs' = Logged(out.sent, out.self)
         /\ last' = [kind |-> Unwrap(req).kind, tag |-> fb.state,
                     status |-> response.status, why |-> out.why, ret |-> out.ret,
                     response |-> response, before |-> Some(fb), taken |-> 0]
    /\ UNCHANGED <<profile, cycle, req, calls, unauth, snap0, empties, bb, dy,
                   sqVars, mgVars, seen>>

WatchBbProcessHttpResponse ==
    /\ profile = "bbox"
    /\ pc = "await"
    /\ \E response \in WatchBBoxResponses(Unwrap(req).kind, bb.state, cycle) :
         LET out == BBoxProcessHttpResponse(bb, response) IN
         /\ bb' = out.self
         /\ pc' = AfterRet(out.ret)
         /\ sends' = sends + Len(out.sent)
         /\ pubs' = Logged(out.sent, out.self)
         /\ last' = [kind |-> Unwrap(req).kind, tag |-> bb.state,
                     status |-> response.status, why |-> out.why, ret |-> out.ret,
                     response |-> response, before |-> Some(bb), taken |-> 0]
    /\ UNCHANGED <<profile, cycle, req, calls, unauth, snap0, empties, fb, dy,
                   sqVars, mgVars, seen>>

\* watch.borrow() in a gauge callback: the reader gets the value the channel
\* holds; `at` is the place of that value in the log and `missed` the number
\* of values sent since the reader's previous borrow of the channel
WatchBorrow ==
    /\ \E ch \in OwnChannels :
         seen' = Some([channel |-> ch,
                       value |-> Held(ch),
                       at |-> Len(pubs[ch]),
                       missed |-> Len(pubs[ch])
                                  - (IF IsSome(seen) /\ Unwrap(seen).channel = ch
                                     THEN Unwrap(seen).at ELSE 1)])
    /\ UNCHANGED <<profile, drvVars, fb, bb, dy, sqVars, mgVars, pubs>>

WatchNext ==
    \/ FbFetch \/ FbCreateHttpRequest \/ WatchFbProcessHttpResponse
    \/ BbFetch \/ BbCreateHttpRequest \/ WatchBbProcessHttpResponse
    \/ WatchBorrow

SpecWatch == WatchInit /\ [][WatchNext]_vars

(* ====================== the walk of good answers ====================== *)
\* Devices that answer every request with 200, a body the step can read and
\* (Freebox) a true success flag: the discovery call with an array of any
\* length up to MaxPorts, the other data calls with an object.
OkFreeboxResponses(kind, tag, c) ==
    CASE kind = "challenge" ->
            {Response("ok", 200, Envelope(Some(TRUE), Object([challenge |-> ch])))
                : ch \in Challenges}
      [] kind = "session" ->
            {Response("ok", 200, Envelope(Some(TRUE), Object([session_token |-> t])))
                : t \in Tokens}
      [] tag = FbTag("SwitchStatus") ->
            {Response("ok", 200,
                      Envelope(Some(TRUE), Array([i \in 1..n |-> [id |-> i, link |-> c]])))
                : n \in 0..MaxPorts}
      [] OTHER ->
            {Response("ok", 200, Envelope(Some(TRUE), Object([bytes |-> c])))}

OkDeyeResponses(c) ==
    {DeyeResponse(200, FALSE, frames) :
        frames \in {<<Frame("data", TRUE, <<Html>> \o DeyeAssignments(c) \o <<Sentinel>>)>>,
                    <<Frame("data", TRUE, <<Html>> \o DeyeAssignments(c)),
                      Frame("data", TRUE, <<Sentinel, Html>>)>>}}

OkInit ==
    /\ profile \in {"freebox", "bbox", "deye"}
    /\ InitCommon
    /\ InitWalk

OkFbProcessHttpResponse ==
    /\ profile = "freebox"
    /\ pc = "await"
    /\ \E response \in OkFreeboxResponses(Unwrap(req).kind, fb.state, cycle) :
         LET out == FreeboxProcessHttpResponse(fb, response) IN
         /\ fb' = out.self
         /\ pc' = AfterRet(out.ret)
         /\ sends' = sends + Len(out.sent)
         /\ last' = [kind |-> Unwrap(req).kind, tag |-> fb.state,
                     status |-> response.status, why |-> out.why, ret |-> out.ret,
                     response |-> response, before |-> Some(fb), taken |-> 0]
    /\ UNCHANGED <<profile, cycle, req, calls, unauth, snap0, empties, bb, dy,
                   sqVars, mgVars, rdVars>>

OkBbProcessHttpResponse ==
    /\ profile = "bbox"
    /\ pc = "await"
    /\ \E response \in WatchBBoxResponses(Unwrap(req).kind, bb.state, cycle) :
         LET out == BBoxProcessHttpResponse(bb, response) IN
         /\ bb' = out.self
         /\ pc' = AfterRet(out.ret)
         /\ sends' = sends + Len(out.sent)
         /\ last' = [kind |-> Unwrap(req).kind, tag |-> bb.state,
                     status |-> response.status, why |-> out.why, ret |-> out.ret,
                     response |-> response, before |-> Some(bb), taken |-> 0]
    /\ UNCHANGED <<profile, cycle, req, calls, unauth, snap0, empties, fb, dy,
                   sqVars, mgVars, rdVars>>

OkDyProcessHttpResponse ==
    /\ profile = "deye"
    /\ pc = "await"
    /\ \E response \in OkDeyeResponses(cycle) :
         LET out == DeyeProcessHttpResponse(dy, response) IN
         /\ dy' = out.self
         /\ pc' = AfterRet(out.ret)
         /\ sends' = sends + Len(out.sent)
         /\ last' = [kind |-> Unwrap(req).kind, tag |-> dy.state,
                     status |-> response.status, why |-> out.why, ret |-> out.ret,
                     response |-> response, before |-> Some(dy),
                     taken |-> DeyeReadFrames(<<>>, response.frames, 0).taken]
    /\ UNCHANGED <<profile, cycle, req, calls, unauth, snap0, empties, fb, bb,
                   sqVars, mgVars, rdVars>>

OkNext ==
    \/ FbFetch \/ FbCreateHttpRequest \/ OkFbProcessHttpResponse
    \/ BbFetch \/ BbCreateHttpRequest \/ OkBbProcessHttpResponse
    \/ DyFetch \/ DyCreateHttpRequest \/ OkDyProcessHttpResponse

SpecOk == OkInit /\ [][OkNext]_vars

(* ================= Deye documents with unusual lines ================== *)
\* other lines an inverter may write for the assignment at place i of the
\* document: another value, a line without its closing characters, and, for
\* the numbers, values that are not numbers of the field's type
OddTails(i) ==
    CASE i = 1 -> {<<"Y", "2", Quote, ";">>, <<"X", "1">>}
      [] i = 2 -> {<<"7", Quote, ";">>, <<"7">>, <<"a", "b", Quote, ";">>,
                   <<Quote, ";">>, <<"1", ".", "5", Quote, ";">>,
                   <<"-", "5", Quote, ";">>,
                   SubSeq(U64MaxDigits, 1, 19) \o <<"6", Quote, ";">>}
      [] i = 3 -> {<<"9", ".", "9", Quote, ";">>, <<"9", ".", "9">>,
                   <<"a", Quote, ";">>, <<Quote, ";">>,
                   <<"1", ".", "2", ".", "3", Quote, ";">>}
      [] i = 4 -> {<<"7", Quote, ";">>, <<"7">>, <<"k", "W", "h", Quote, ";">>}
      [] i = 5 -> {<<"l", "a", "b", Quote, ";">>, <<"l", "a", "b">>}
      [] OTHER -> {<<"5", "5", "%", Quote, ";">>, <<"5", "5", "%">>,
                   <<"8", "0", Quote, ";">>, <<"a", "%", Quote, ";">>,
                   <<"3", "0", "0", "%", Quote, ";">>, <<"%", Quote, ";">>}

\* the documents of cycle c with such a line: in the place of the usual
\* assignment, after the six assignments, or before them
OddDocuments(c) ==
    LET usual == DeyeAssignments(c) IN
    UNION {UNION {
        {<<Html>> \o [usual EXCEPT ![i] = Line(usual[i].name, tail)] \o <<Sentinel>>,
         <<Html>> \o usual \o <<Line(usual[i].name, tail), Sentinel>>,
         <<Html, Line(usual[i].name, tail)>> \o usual \o <<Sentinel>>}
        : tail \in OddTails(i)} : i \in 1..6}

OddDeyeResponses(c) ==
    {DeyeResponse(200, FALSE, <<Frame("data", TRUE, doc)>>) : doc \in OddDocuments(c)}

OddInit ==
    /\ profile = "deye"
    /\ InitCommon
    /\ InitWalk

OddDyProcessHttpResponse ==
    /\ profile = "deye"
    /\ pc = "await"
    /\ \E response \in OddDeyeResponses(cycle) :
         LET out == DeyeProcessHttpResponse(dy, response) IN
         /\ dy' = out.self
         /\ pc' = AfterRet(out.ret)
         /\ sends' = sends + Len(out.sent)
         /\ last' = [kind |-> Unwrap(req).kind, tag |-> dy.state,
                     status |-> response.status, why |-> out.why, ret |-> out.ret,
                     response |-> response, before |-> Some(dy),
                     taken |-> DeyeReadFrames(<<>>, response.frames, 0).taken]
    /\ UNCHANGED <<profile, cycle, req, calls, unauth, snap0, empties, fb, bb,
                   sqVars, mgVars, rdVars>>

OddNext == DyFetch \/ DyCreateHttpRequest \/ OddDyProcessHttpResponse

SpecOdd == OddInit /\ [][OddNext]_vars

(* ================== a Freebox switch with many ports ================== *)
\* lengths of the discovery array around what the u8 count can hold
WideLengths == {U8Max, U8Max + 1, U8Max + 2}

\* a Freebox that succeeds at every step and reports that many ports
WideFreeboxResponses(kind, tag, c) ==
    IF kind = "data" /\ tag = FbTag("SwitchStatus")
    THEN {Response("ok", 200,
                   Envelope(Some(TRUE), Array([i \in 1..n |-> [id |-> i, link |-> c]])))
            : n \in WideLengths}
    ELSE OkFreeboxResponses(kind, tag, c)

WideInit ==
    /\ profile = "freebox"
    /\ InitCommon
    /\ InitWalk

WideFbProcessHttpResponse ==
    /\ profile = "freebox"
    /\ pc = "await"
    /\ \E response \in WideFreeboxResponses(Unwrap(req).kind, fb.state, cycle) :
         LET out == FreeboxProcessHttpResponse(fb, response) IN
         /\ fb' = out.self
         /\ pc' = AfterRet(out.ret)
         /\ sends' = sends + Len(out.sent)
         /\ last' = [kind |-> Unwrap(req).kind, tag |-> fb.state,
                     status |-> response.status, why |-> out.why, ret |-> out.ret,
                     response |-> response, before |-> Some(fb), taken |-> 0]
    /\ UNCHANGED <<profile, cycle, req, calls, unauth, snap0, empties, bb, dy,
                   sqVars, mgVars, rdVars>>

WideNext == FbFetch \/ FbCreateHttpRequest \/ WideFbProcessHttpResponse

SpecWide == WideInit /\ [][WideNext]_vars

(* ============================ properties ============================== *)
\* the cycle in progress or last run ended with FetchAction::None after a
\* successful data response
CycleCompleted == pc = "idle" /\ cycle >= 1 /\ last.ret = "None" /\ last.why = "ok"
\* the cycle last run ended with an error returned to the processor
CycleFailed == pc = "idle" /\ cycle >= 1 /\ last.ret = "Err"
\* the cycle last run ended on a cancelled request
CycleCanceled == pc = "idle" /\ cycle >= 1 /\ last.why = "canceled"
\* fetch() has just returned
JustFetched == pc = "build" /\ cycle >= 1 /\ last = NoLast

IsPrefix(s, t) == Len(s) <= Len(t) /\ s = SubSeq(t, 1, Len(s))

\* what a reader sees, whatever the profile
Published ==
    CASE profile = "freebox" -> FreeboxPublished(fb)
      [] profile = "bbox" -> BBoxPublished(bb)
      [] OTHER -> DeyePublished(dy)

\* C1: for every port count N in 1..255, the k-th tag after SwitchStatus is
\* SwitchPort(N-k+1) for k = 1..N and End for k = N+1: N, N-1, ..., 1, End,
\* descending by one, both bounds included, nothing repeated or skipped.
\* (SwitchStatus is reached after 2 steps of the walk.)
C1_DescendingTail ==
    (sq_n >= 1 /\ sq_steps > 2) =>
        LET k == sq_steps - 2 IN
        /\ k <= sq_n + 1
        /\ sq_state = IF k <= sq_n THEN SwitchPort(sq_n - k + 1) ELSE FbEnd

C1_Witness ==
    /\ sq_n = U8Max
    /\ sq_steps = 2 + U8Max + 1
    /\ sq_state = FbEnd

\* C2: when the discovery step reports 0 ports the chain is over: the tag
\* after the discovery is End, the processor is told there is nothing more to
\* do, and no switch-port call is built in that cycle.
C2_ZeroPortsEndChain ==
    profile = "freebox" =>
        /\ (/\ last.kind = "data"
            /\ last.tag = FbTag("SwitchStatus")
            /\ last.why = "ok"
            /\ fb.number_ports = 0)
              => (fb.state = FbEnd /\ last.ret = "None")
        /\ fb.number_ports = 0
              => \A i \in DOMAIN calls : calls[i].tag # "SwitchPort"

\* C3: a BBox cycle without a failed response calls Cpu, Mem, Wan, Lan,
\* Wifi 2.4 GHz, Wifi 5 GHz in that order, whatever the bodies hold, and is at
\* End when it completes.
BBoxChain ==
    <<BbTag("Cpu"), BbTag("Mem"), BbTag("Wan"), BbTag("Lan"), Wifi(FALSE), Wifi(TRUE)>>

C3_StaticChain ==
    (profile = "bbox" /\ unauth = 0) =>
        /\ IsPrefix(calls, BBoxChain)
        /\ CycleCompleted => (calls = BBoxChain /\ bb.state = BbEnd)
        /\ Len(calls) >= 5 =>
              /\ Unwrap(BBoxCall(calls[5]))[2] = "/api/v1/wireless/24/stats"
              /\ Unwrap(BBoxCall(calls[3]))[2] = "/api/v1/wan/ip/stats"

C3_Witness ==
    /\ profile = "bbox"
    /\ unauth = 0
    /\ CycleCompleted
    /\ cycle = 2
    /\ calls = BBoxChain

\* C4: a 401 to the BBox data call of tag T clears the cookie and leaves the
\* tag at T; the request built next is the login; and once the login has
\* succeeded the request built next is the data call of T again.
C4_UnauthorizedKeepsPosition ==
    profile = "bbox" =>
        /\ (last.kind = "data" /\ last.status = 401) =>
              /\ IsNone(bb.bbox_id)
              /\ bb.state = last.tag
              /\ last.ret = "Http"
              /\ pc \in {"build", "await"}
              /\ pc = "await" => Unwrap(req).kind = "login"
        /\ (last.kind = "login" /\ last.why = "ok" /\ unauth >= 1 /\ pc = "await") =>
              /\ Unwrap(req).kind = "data"
              /\ Len(calls) >= 2
              /\ calls[Len(calls)] = calls[Len(calls) - 1]
              /\ Unwrap(req).tag = calls[Len(calls)]

C4_Witness ==
    /\ profile = "bbox"
    /\ last.kind = "login" /\ last.why = "ok" /\ unauth = 1 /\ pc = "await"
    /\ Unwrap(req) = [kind |-> "data", tag |-> Wifi(FALSE)]

\* C5: a 401 to a Freebox data call clears the stored challenge and the
\* stored session token and asks for another request, which is then the
\* challenge request.
C5_UnauthorizedClearsSession ==
    (profile = "freebox" /\ last.kind = "data" /\ last.status = 401) =>
        /\ IsNone(fb.challenge_freebox)
        /\ IsNone(fb.session_token)
        /\ last.ret = "Http"

\* the cycles whose values a reader can see
FreeboxStamps(p) ==
    (IF IsSome(p.meter_conn.result) THEN {Unwrap(p.meter_conn.result).bytes} ELSE {})
    \cup (IF IsSome(p.meter_system.result)
          THEN {Unwrap(p.meter_system.result).bytes} ELSE {})
    \cup {p.meter_switch[i].link : i \in DOMAIN p.meter_switch}
    \cup {Unwrap(p.meter_eth[i].result).bytes :
            i \in {j \in DOMAIN p.meter_eth : IsSome(p.meter_eth[j].result)}}

CategoryStamps(cat) ==
    IF IsSome(cat) THEN {Unwrap(cat)[k] : k \in DOMAIN Unwrap(cat)} ELSE {}

BBoxStamps(p) ==
    CategoryStamps(p.device) \cup CategoryStamps(p.wan) \cup CategoryStamps(p.lan)
    \cup (IF IsSome(p.wireless)
          THEN {Unwrap(p.wireless)[k].v : k \in DOMAIN Unwrap(p.wireless)} ELSE {})

PublishedStamps ==
    CASE profile = "freebox" -> FreeboxStamps(FreeboxPublished(fb))
      [] profile = "bbox" -> BBoxStamps(BBoxPublished(bb))
      [] OTHER -> IF DeyePublished(dy) = DeyeSolarDataDefault THEN {}
                  ELSE {DeyePublished(dy).current_power}

\* C6: what a reader sees is the initial value or the result of one finished
\* cycle: all values readable at one moment come from the same cycle, and that
\* cycle has completed.
C6_SnapshotNeverPartial ==
    /\ Cardinality(PublishedStamps) <= 1
    /\ \A c \in PublishedStamps : c < cycle \/ (c = cycle /\ CycleCompleted)

\* C7: a cycle that ends with an error leaves every published channel as it
\* was when the cycle started.
C7_NoPublishOnFailure == CycleFailed => Published = snap0

\* C8: a BBox or Deye cycle sends on its watch channel at most once, only in
\* the step that ends the cycle successfully (for BBox the step from
\* Wifi 5 GHz to End); a completed cycle has sent exactly once, a failed or
\* cancelled one not at all.
C8_OnePublishPerCycle ==
    profile \in {"bbox", "deye"} =>
        /\ sends <= 1
        /\ sends = 1 =>
              /\ CycleCompleted
              /\ profile = "bbox" => (last.tag = Wifi(TRUE) /\ bb.state = BbEnd)
        /\ CycleCompleted => sends = 1
        /\ (CycleFailed \/ CycleCanceled) => sends = 0

C8_Witness ==
    /\ profile = "bbox"
    /\ cycle = 2
    /\ CycleCompleted
    /\ sends = 1
    /\ unauth = 1

\* C9: right after fetch() the BBox working snapshot is empty.
C9_FetchResetsSnapshot ==
    (profile = "bbox" /\ JustFetched) => bb.stats = BBoxApiResponseDefault

\* C10: after merge, each of the device, wan and lan categories holds every
\* key of the fragment with the fragment's value, every other key it held
\* before with its old value, and nothing else; a category the fragment lacks
\* is as before.  {a:1,b:2} then {b:3,c:4} gives {a:1,b:3,c:4}.
UnionOverwrite(before, fragment, after) ==
    IF IsNone(fragment) THEN after = before
    ELSE /\ IsSome(after)
         /\ LET m == IF IsSome(before) THEN Unwrap(before) ELSE EmptyMap
                f == Unwrap(fragment)
                r == Unwrap(after)
            IN  /\ DOMAIN r = (DOMAIN m) \cup (DOMAIN f)
                /\ \A k \in DOMAIN f : r[k] = f[k]
                /\ \A k \in (DOMAIN m) \ (DOMAIN f) : r[k] = m[k]

C10_UnionOverwrite ==
    (profile = "merge" /\ mg_count >= 1) =>
        /\ \A cat \in {"device", "wan", "lan"} :
              UnionOverwrite(mg_prev[cat], mg_other[cat], mg_stats[cat])
        /\ (mg_prev.device = Some([a |-> 1, b |-> 2])
            /\ mg_other.device = Some([b |-> 3, c |-> 4]))
              => mg_stats.device = Some([a |-> 1, b |-> 3, c |-> 4])

C10_Witness ==
    /\ profile = "merge"
    /\ mg_count = 2
    /\ mg_prev.device = Some([a |-> 1, b |-> 2])
    /\ mg_other.device = Some([b |-> 3, c |-> 4])
    /\ mg_stats.device = Some([a |-> 1, b |-> 3, c |-> 4])

\* the wireless part of a fragment carries an identifier: it has an "ssid"
\* member that is an object with a numeric "id"
HasIdentifier(fragment) ==
    /\ IsSome(fragment.wireless)
    /\ "ssid" \in DOMAIN Unwrap(fragment.wireless)
    /\ Unwrap(fragment.wireless)["ssid"].obj
    /\ IsSome(Unwrap(fragment.wireless)["ssid"].id)

\* the key of the two radio bands, written out
BandKey(id) == IF id = 24 THEN "24" ELSE "5"

\* C11: merging a wireless fragment whose ssid object has the identifier id
\* stores that object, as it is, under the key to_string(id) of the wireless
\* category and leaves every entry under another key as it was; after the
\* fragment of "24" and then the one of "5" the category holds both keys, each
\* with its own object.
C11_KeyedPartition ==
    (profile = "merge" /\ mg_count >= 1 /\ HasIdentifier(mg_other)) =>
        LET ssid == Unwrap(mg_other.wireless)["ssid"]
            key == BandKey(Unwrap(ssid.id))
            old == IF IsSome(mg_prev.wireless) THEN Unwrap(mg_prev.wireless)
                   ELSE EmptyMap
        IN  /\ IsSome(mg_stats.wireless)
            /\ DOMAIN Unwrap(mg_stats.wireless) = (DOMAIN old) \cup {key}
            /\ Unwrap(mg_stats.wireless)[key] = ssid
            /\ \A k \in (DOMAIN old) \ {key} :
                  Unwrap(mg_stats.wireless)[k] = old[k]
            /\ (key = "5" /\ DOMAIN old = {"24"}) =>
                  /\ DOMAIN Unwrap(mg_stats.wireless) = {"24", "5"}
                  /\ Unwrap(mg_stats.wireless)["24"] = old["24"]

C11_Witness ==
    /\ profile = "merge"
    /\ mg_count = 2
    /\ mg_prev.wireless = Some(("24" :> [obj |-> TRUE, id |-> Some(24), v |-> 1]))
    /\ HasIdentifier(mg_other)
    /\ mg_stats.wireless =
          Some(("24" :> [obj |-> TRUE, id |-> Some(24), v |-> 1])
               @@ ("5" :> [obj |-> TRUE, id |-> Some(5), v |-> 2]))

\* C12: a fragment whose wireless part carries no identifier (no "ssid"
\* member, one that is no object, or one without a numeric "id") leaves the
\* wireless category exactly as it was, while its device, wan and lan parts
\* are merged as usual and the result is a snapshot (merge has no error).
C12_MissingIdentifierDropped ==
    (/\ profile = "merge"
     /\ mg_count >= 1
     /\ IsSome(mg_other.wireless)
     /\ ~HasIdentifier(mg_other)) =>
        /\ mg_stats.wireless = mg_prev.wireless
        /\ DOMAIN mg_stats = {"device", "wan", "lan", "wireless"}
        /\ \A cat \in {"device", "wan", "lan"} :
              /\ IsSome(mg_other[cat]) => IsSome(mg_stats[cat])
              /\ IsSome(mg_other[cat]) =>
                    \A k \in DOMAIN Unwrap(mg_other[cat]) :
                        /\ k \in DOMAIN Unwrap(mg_stats[cat])
                        /\ Unwrap(mg_stats[cat])[k] = Unwrap(mg_other[cat])[k]

C12_Witness ==
    /\ profile = "merge"
    /\ mg_count = 2
    /\ mg_other.wireless = Some([ssid |-> [obj |-> TRUE, id |-> None, v |-> 1]])
    /\ mg_other.device = Some([b |-> 3, c |-> 4])
    /\ mg_prev.wireless = Some(("24" :> [obj |-> TRUE, id |-> Some(24), v |-> 1]))
    /\ mg_prev.device = None
    /\ mg_stats.wireless = mg_prev.wireless
    /\ mg_stats.device = Some([b |-> 3, c |-> 4])

\* a category of a fragment is empty: absent, or present with no keys
EmptyCategory(cat) == IsNone(cat) \/ cat = Some(EmptyMap)

\* C13: merging a fragment whose four categories are all empty (absent, or
\* present with no keys) leaves every category the snapshot already had as it
\* was.
C13_MergeIdentity ==
    (/\ profile = "merge"
     /\ mg_count >= 1
     /\ \A cat \in {"device", "wan", "lan", "wireless"} :
           EmptyCategory(mg_other[cat])) =>
        \A cat \in {"device", "wan", "lan", "wireless"} :
            IsSome(mg_prev[cat]) => mg_stats[cat] = mg_prev[cat]

C13_Witness ==
    /\ profile = "merge"
    /\ mg_count = 2
    /\ \A cat \in {"device", "wan", "lan", "wireless"} : mg_other[cat] = Some(EmptyMap)
    /\ mg_prev.device = Some([a |-> 1, b |-> 2])
    /\ IsSome(mg_prev.wireless)
    /\ mg_stats = mg_prev

\* a 200 to a BBox data call whose body parsed
BBoxParsed ==
    /\ profile = "bbox"
    /\ last.kind = "data"
    /\ last.response.transport = "ok"
    /\ last.response.status = 200
    /\ last.response.body.wf

\* C14: after a BBox data response whose body is an array of fragments, the
\* snapshot (the working one, or the published one when the step reached End)
\* is the snapshot before the response with the elements merged one after the
\* other in array order; of two elements with the same key in device the
\* second one's value is kept, beside the keys only the first one has.
C14_ArrayFold ==
    BBoxParsed =>
        LET items == last.response.body.items
            s0 == Unwrap(last.before).stats
            folded == CASE Len(items) = 0 -> s0
                        [] Len(items) = 1 -> Merge(s0, items[1])
                        [] OTHER -> Merge(Merge(s0, items[1]), items[2])
            held == IF bb.state = BbEnd THEN bb.meter_bbox ELSE bb.stats
        IN  /\ Len(items) <= 2
            /\ held = folded
            /\ items = BBoxTwoFragments(cycle) =>
                  /\ Unwrap(held.device)["cpu"] = cycle
                  /\ Unwrap(held.device)["model"] = cycle

C14_Witness ==
    /\ BBoxParsed
    /\ cycle = 1
    /\ last.response.body.items = BBoxTwoFragments(1)
    /\ bb.state = BbTag("Mem")
    /\ bb.stats.device = Some([cpu |-> 1, model |-> 1])

\* a 200 to a BBox data call whose body cannot be parsed
BBoxUnparsable ==
    /\ profile = "bbox"
    /\ last.kind = "data"
    /\ last.response.transport = "ok"
    /\ last.response.status = 200
    /\ ~last.response.body.wf

\* C15: a BBox data response whose body cannot be parsed makes
\* process_http_response return an error; the working snapshot and the tag are
\* what they were before the response, nothing was sent on the channel, and
\* the cycle is over.
C15_ParseFailureIsHardError ==
    BBoxUnparsable =>
        /\ last.ret = "Err"
        /\ pc = "idle"
        /\ bb.stats = Unwrap(last.before).stats
        /\ bb.state = Unwrap(last.before).state
        /\ bb.state = last.tag
        /\ bb.meter_bbox = Unwrap(last.before).meter_bbox
        /\ sends = 0

C15_Witness ==
    /\ BBoxUnparsable
    /\ cycle = 1
    /\ bb.state = BbTag("Wan")
    /\ bb.stats.device = Some([cpu |-> 1, mem |-> 1])
    /\ last.ret = "Err"

\* a 200 to a Freebox data call whose envelope has success = false
FreeboxNotSuccess ==
    /\ profile = "freebox"
    /\ last.kind = "data"
    /\ last.response.transport = "ok"
    /\ last.response.status = 200
    /\ last.response.body.wf
    /\ last.response.body.success = Some(FALSE)

\* C16: a Freebox data response with success = false ends the cycle: no
\* other request follows in it, the tag stays where it was, and no published
\* channel holds a value read in that cycle.
C16_NotSuccessAborts ==
    FreeboxNotSuccess =>
        /\ pc = "idle"
        /\ fb.state = last.tag
        /\ cycle \notin FreeboxStamps(FreeboxPublished(fb))

\* the adaptor of a Freebox or BBox instance
Adaptor == IF profile = "freebox" THEN fb ELSE bb

\* C17: for BBox and Freebox, a cancelled request ends the cycle without an
\* error: process_http_response returns FetchAction::None, no request follows
\* in the cycle, and the adaptor (credentials, tag, working snapshot and
\* published channels) is as it was; any other transport failure is returned
\* as an error.
C17_CancellationIsSoft ==
    profile \in {"freebox", "bbox"} =>
        /\ last.response.transport = "canceled" =>
              /\ last.ret = "None"
              /\ pc = "idle"
              /\ Adaptor = Unwrap(last.before)
        /\ last.response.transport = "error" =>
              /\ last.ret = "Err"
              /\ pc = "idle"

C17_Witness ==
    /\ profile = "bbox"
    /\ last.response.transport = "canceled"
    /\ last.kind = "data"
    /\ bb.state = BbTag("Lan")
    /\ IsSome(bb.bbox_id)
    /\ last.ret = "None"
    /\ pc = "idle"

\* the adaptor of the instance, whatever the profile
AnyAdaptor ==
    CASE profile = "freebox" -> fb
      [] profile = "bbox" -> bb
      [] OTHER -> dy

\* a response with a status that is neither 200 nor 401 was processed
OtherStatus ==
    /\ last.kind \in {"challenge", "session", "login", "data"}
    /\ profile \in {"freebox", "bbox"} => last.response.transport = "ok"
    /\ last.response.status \notin {200, 401}

\* C18: in every profile and in every phase, a response whose status is
\* neither 200 nor 401 makes process_http_response return an error; the cycle
\* is over and the adaptor (tag, credentials, working snapshot, published
\* channels) is as it was before the response.
C18_OtherStatusFails ==
    OtherStatus =>
        /\ last.ret = "Err"
        /\ pc = "idle"
        /\ AnyAdaptor = Unwrap(last.before)

C18_Witness ==
    /\ profile = "freebox"
    /\ OtherStatus
    /\ last.kind = "session"
    /\ last.response.status = 404
    /\ fb.challenge_freebox = Some("ch2")
    /\ IsNone(fb.session_token)
    /\ last.ret = "Err"

\* a 200 was processed by the Freebox adaptor
FreeboxAnswered ==
    /\ profile = "freebox"
    /\ last.kind \in {"challenge", "session", "data"}
    /\ last.response.transport = "ok"
    /\ last.response.status = 200

\* C19: the Freebox request in flight is the challenge request exactly when no
\* challenge is held, the session exchange exactly when a challenge and no
\* token are held, and the data call of the current tag exactly when both are
\* held.  A 200 is read by the same conditions on the adaptor before it: with
\* no challenge only the challenge may change, and it is set from a body that
\* has one; with a challenge and no token only the token may change, and it is
\* set from a body that has one; with both, neither changes.
C19_HandshakeStepSelection ==
    profile = "freebox" =>
        /\ pc = "await" =>
              LET kind == Unwrap(req).kind IN
              /\ kind \in {"challenge", "session", "data"}
              /\ (kind = "challenge") <=> IsNone(fb.challenge_freebox)
              /\ (kind = "session") <=>
                    (IsSome(fb.challenge_freebox) /\ IsNone(fb.session_token))
              /\ (kind = "data") <=>
                    (IsSome(fb.challenge_freebox) /\ IsSome(fb.session_token))
              /\ kind = "data" =>
                    (Unwrap(req).tag = fb.state /\ IsSome(FreeboxCall(fb.state)))
        /\ FreeboxAnswered =>
              LET b == Unwrap(last.before)
                  result == last.response.body.result
                  has(key) == /\ last.response.body.wf
                              /\ IsSome(last.response.body.success)
                              /\ result.k = "object"
                              /\ key \in DOMAIN result.map
                              /\ result.map[key] # JsonNumber
              IN  /\ IsNone(b.challenge_freebox) =>
                        /\ last.kind = "challenge"
                        /\ [fb EXCEPT !.challenge_freebox = None] = b
                        /\ has("challenge") =>
                              fb.challenge_freebox = Some(result.map["challenge"])
                        /\ ~has("challenge") => fb = b
                  /\ (IsSome(b.challenge_freebox) /\ IsNone(b.session_token)) =>
                        /\ last.kind = "session"
                        /\ [fb EXCEPT !.session_token = None] = b
                        /\ has("session_token") =>
                              fb.session_token = Some(result.map["session_token"])
                        /\ ~has("session_token") => fb = b
                  /\ (IsSome(b.challenge_freebox) /\ IsSome(b.session_token)) =>
                        /\ last.kind = "data"
                        /\ fb.challenge_freebox = b.challenge_freebox
                        /\ fb.session_token = b.session_token

C19_Witness ==
    /\ profile = "freebox"
    /\ pc = "await"
    /\ Unwrap(req) = [kind |-> "data", tag |-> FbTag("Connection")]
    /\ FreeboxAnswered
    /\ last.kind = "session"
    /\ fb.challenge_freebox = Some("ch2")
    /\ fb.session_token = Some("tok1")

\* the response being processed in this step is a 200 whose body parses and
\* has the member `key`, a string, in its result
FreeboxStepConsumes(kind, key) ==
    /\ pc = "await"
    /\ Unwrap(req).kind = kind
    /\ last'.kind = kind
    /\ last'.response.transport = "ok"
    /\ last'.response.status = 200
    /\ last'.response.body.wf
    /\ IsSome(last'.response.body.success)
    /\ last'.response.body.result.k = "object"
    /\ key \in DOMAIN last'.response.body.result.map
    /\ last'.response.body.result.map[key] # JsonNumber

\* C20: the Freebox session is created with neither challenge nor token; in
\* every reachable state a token is held only if a challenge is held; the
\* challenge changes only in the step that processes a 200 to the challenge
\* request whose body has a challenge, and becomes that challenge; the token
\* changes only in the step that processes a 200 to the session exchange whose
\* body has a session token, while a challenge is held, and becomes that
\* token.
C20_SessionInvariant ==
    /\ (profile = "freebox" =>
            (IsNone(fb.challenge_freebox) /\ IsNone(fb.session_token)))
    /\ [](profile = "freebox" =>
            (IsSome(fb.session_token) => IsSome(fb.challenge_freebox)))
    /\ [][profile = "freebox" =>
            /\ fb'.challenge_freebox # fb.challenge_freebox =>
                  /\ FreeboxStepConsumes("challenge", "challenge")
                  /\ IsNone(fb.challenge_freebox)
                  /\ fb'.challenge_freebox =
                        Some(last'.response.body.result.map["challenge"])
                  /\ fb'.session_token = fb.session_token
            /\ fb'.session_token # fb.session_token =>
                  /\ FreeboxStepConsumes("session", "session_token")
                  /\ IsSome(fb.challenge_freebox)
                  /\ IsNone(fb.session_token)
                  /\ fb'.session_token =
                        Some(last'.response.body.result.map["session_token"])
                  /\ fb'.challenge_freebox = fb.challenge_freebox]_vars

C20_Witness ==
    /\ profile = "freebox"
    /\ last.kind = "session"
    /\ last.response.status = 200
    /\ last.ret = "Http"
    /\ Unwrap(last.before).challenge_freebox = Some("ch1")
    /\ IsNone(Unwrap(last.before).session_token)
    /\ fb.challenge_freebox = Some("ch1")
    /\ fb.session_token = Some("tok1")

\* a body of a login response that does not parse or has no string member
\* `key` in its result
LacksString(body, key) ==
    ~(/\ body.wf
      /\ IsSome(body.success)
      /\ body.result.k = "object"
      /\ key \in DOMAIN body.result.map
      /\ body.result.map[key] # JsonNumber)

\* a 200 to a handshake request of `kind` was processed
HandshakeAnswered(kind) ==
    /\ last.kind = kind
    /\ last.response.transport = "ok"
    /\ last.response.status = 200

DeyeRead ==
    /\ profile = "deye"
    /\ pc = "idle"
    /\ last.kind # "none"
    /\ last.status = 200
    /\ last.why \notin {"transport", "utf8"}

RECURSIVE DataUpTo(_, _)
\* the text of the data frames among the first k frames of a body
DataUpTo(frames, k) ==
    IF k = 0 THEN <<>>
    ELSE DataUpTo(frames, k - 1)
         \o (IF frames[k].kind = "data" THEN frames[k].lines ELSE <<>>)

\* the required assignments, in the order try_from reports them
DeyeRequired ==
    <<"webdata_sn", "webdata_now_p", "webdata_today_e", "webdata_total_e",
      "cover_sta_ssid", "cover_sta_rssi">>

\* the required assignments a text lacks, by their place in DeyeRequired
DeyeAbsent(data) ==
    {i \in DOMAIN DeyeRequired :
        \A j \in DOMAIN data : data[j].name # DeyeRequired[i]}

\* C22: a document with the six well-formed assignments parses to the six
\* values, without the quote, the terminator, the '%' of the signal value; a
\* document lacking some of them fails with an error naming the first one
\* lacking in the order sn, now_p, today_e, total_e, ssid, rssi.
C22_DeyeParse ==
    DeyeRead =>
        LET data == DataUpTo(last.response.frames, last.taken)
            absent == DeyeAbsent(data)
        IN  IF absent = {}
            THEN /\ last.ret = "None"
                 /\ dy.meter_solar =
                        [serial_number |-> <<"X", "1">>,
                         current_power |->
                            IF data[Len(data)] = LatePower THEN 9 ELSE cycle,
                         yield_today |-> 34,
                         total_yield |-> 5001,
                         wireless_router_ssid |-> <<"h", "o", "m", "e">>,
                         wireless_signal_quality |-> 80]
            ELSE /\ last.ret = "Err"
                 /\ dy = Unwrap(last.before)
                 /\ \E i \in absent :
                        /\ \A j \in absent : i <= j
                        /\ last.why = DeyeRequired[i]

C22_Witness ==
    /\ DeyeRead
    /\ DeyeAbsent(DataUpTo(last.response.frames, last.taken)) = {3, 5}
    /\ last.why = "webdata_today_e"

\* the complete document, parsed
C22_WitnessComplete ==
    /\ DeyeRead
    /\ DeyeAbsent(DataUpTo(last.response.frames, last.taken)) = {}
    /\ cycle = 2
    /\ dy.meter_solar.current_power = 2
    /\ dy.meter_solar.wireless_signal_quality = 80

\* C23: the read stops at the first data frame with which the text read so
\* far holds the sentinel, and what is parsed is the text up to and including
\* that frame; without a sentinel every frame is read and parsed.
C23_StopsAtSentinel ==
    DeyeRead =>
        LET frames == last.response.frames
            visible == {k \in DOMAIN frames :
                        frames[k].kind = "data" /\ HasSentinel(DataUpTo(frames, k))}
            stop == IF visible = {} THEN Len(frames)
                    ELSE CHOOSE k \in visible : \A j \in visible : k <= j
            parsed == DeyeTryFrom(DataUpTo(frames, stop))
        IN  /\ last.taken = stop
            /\ parsed.ok => last.ret = "None" /\ dy.meter_solar = parsed.data
            /\ ~parsed.ok => last.ret = "Err" /\ last.why = parsed.error

C23_Witness ==
    /\ DeyeRead
    /\ Len(last.response.frames) = 3
    /\ last.response.frames[2].lines = <<LatePower>>
    /\ last.taken = 1
    /\ last.ret = "None"
    /\ dy.meter_solar.current_power = cycle

\* a body without the sentinel is read to its end and parsed
C23_WitnessNoSentinel ==
    /\ DeyeRead
    /\ ~HasSentinel(DataUpTo(last.response.frames, Len(last.response.frames)))
    /\ last.taken = 3
    /\ last.ret = "None"
    /\ dy.meter_solar.current_power = 9

\* C24: the port count of the Freebox adaptor is written only while a 200 to
\* the SwitchStatus request with a "result" array is processed, where it becomes
\* the length of the array as a u8; handshake steps, Connection, System and
\* SwitchPort steps, error outcomes and fetch() leave it as it was.
C24_PortCountFrame ==
    [][profile = "freebox" =>
        /\ fb'.number_ports # fb.number_ports =>
              /\ pc = "await"
              /\ last'.kind = "data"
              /\ fb.state = FbTag("SwitchStatus")
              /\ last'.response.transport = "ok"
              /\ last'.response.status = 200
              /\ last'.ret = "Http"
              /\ last'.response.body.wf
              /\ last'.response.body.result.k = "array"
              /\ fb'.number_ports = AsU8(Len(last'.response.body.result.items))
        /\ (pc = "await" /\ pc' # "await" /\ last'.ret = "Err") =>
              fb'.number_ports = fb.number_ports
        /\ pc = "idle" => fb'.number_ports = fb.number_ports]_vars

C24_Witness ==
    /\ profile = "freebox"
    /\ last.kind = "data"
    /\ last.tag = FbTag("SwitchStatus")
    /\ last.ret = "Http"
    /\ Unwrap(last.before).number_ports = 1
    /\ fb.number_ports = 2

\* the data calls of the cycle that were answered
BBoxAnswers ==
    Len(calls) - (IF pc = "await" /\ Unwrap(req).kind = "data" THEN 1 ELSE 0)

\* C25: no count of 401 answers ends a cycle.  As long as every data call of
\* a BBox cycle was answered 401 (the logins succeeding), the cycle is still
\* running at its first tag with no error and no "no further action"; each 401
\* to a data call asks for another request with the tag kept and the session
\* cleared, the request built next is the login, a successful login asks for
\* another request, and the one built then is the data call of the same tag.
\* A Deye 401 with a WWW-Authenticate header asks for another request.
C25_UnauthorizedNotCapped ==
    /\ [](profile = "bbox" /\ cycle >= 1 /\ unauth = BBoxAnswers =>
            /\ pc \in {"build", "await"}
            /\ bb.state = BBoxDefault
            /\ last.ret \in {"none", "Http"})
    /\ [][profile = "bbox" =>
            /\ (pc = "await" /\ last'.status = 401) =>
                  /\ last'.ret = "Http"
                  /\ pc' = "build"
                  /\ bb'.state = bb.state
                  /\ IsNone(bb'.bbox_id)
            /\ (pc = "build" /\ IsNone(bb.bbox_id)) =>
                  pc' = "await" /\ Unwrap(req').kind = "login"
            /\ (pc = "await" /\ Unwrap(req).kind = "login") =>
                  /\ last'.ret = "Http"
                  /\ pc' = "build"
                  /\ bb'.state = bb.state
                  /\ IsSome(bb'.bbox_id)
            /\ (pc = "build" /\ IsSome(bb.bbox_id)) =>
                  /\ pc' = "await"
                  /\ Unwrap(req') = [kind |-> "data", tag |-> bb.state]]_vars
    /\ [][(profile = "deye" /\ pc = "await" /\ last'.status = 401) =>
            /\ last'.ret = "Http"
            /\ pc' = "build"
            /\ dy' = dy]_vars

C25_Witness ==
    /\ profile = "bbox"
    /\ unauth >= 3
    /\ BBoxAnswers = unauth
    /\ pc = "await"
    /\ Unwrap(req) = [kind |-> "data", tag |-> BBoxDefault]

\* three 401 in a row from a Deye inverter, and the request is asked again
C25_WitnessDeye ==
    /\ profile = "deye"
    /\ unauth >= 3
    /\ last.status = 401
    /\ pc = "build"

\* the value handed to send() by the step that processed last.response
ValueSent(ch) ==
    LET before == Unwrap(last.before)
        body == last.response.body
    IN  CASE ch = "meter_bbox" -> MergeAll(before.stats, body.items)
          [] ch = "meter_switch" -> body.result.items
          [] ch = "meter_eth" ->
                [(IF before.meter_eth # <<>> THEN before.meter_eth
                  ELSE [i \in 1..before.number_ports |-> FreeboxApiResponseDefault])
                 EXCEPT ![before.state.port] =
                    [success |-> TRUE, result |-> Some(body.result.map)]]
          [] OTHER -> [success |-> TRUE, result |-> Some(body.result.map)]

\* the step is a borrow of the channel by the reader
Borrowed(ch) ==
    /\ IsSome(seen')
    /\ Unwrap(seen').channel = ch
    /\ \/ IsNone(seen)
       \/ Unwrap(seen).channel # ch
       \/ Unwrap(seen).at # Unwrap(seen').at
       \/ Unwrap(seen).missed # Unwrap(seen').missed

\* C26: a send replaces the value a channel holds by the value sent, whole,
\* whether or not the previous value was read; the value held is the one sent
\* last; a reader gets the value sent last at the time of its borrow, whatever
\* number of values it missed, and what it got is always one of the values
\* sent (or the initial one), never a mix of two.
C26_LastWriteWins ==
    /\ [](\A ch \in OwnChannels : Held(ch) = pubs[ch][Len(pubs[ch])])
    /\ [](IsSome(seen) =>
            Unwrap(seen).value = pubs[Unwrap(seen).channel][Unwrap(seen).at])
    /\ [][\A ch \in OwnChannels :
            /\ Len(pubs'[ch]) > Len(pubs[ch]) =>
                  /\ Len(pubs'[ch]) = Len(pubs[ch]) + 1
                  /\ pubs'[ch][Len(pubs'[ch])] = ValueSent(ch)'
                  /\ \A other \in OwnChannels : ~Borrowed(other)
            /\ Borrowed(ch) =>
                  /\ Unwrap(seen').at = Len(pubs[ch])
                  /\ Unwrap(seen').value = pubs[ch][Len(pubs[ch])]
                  /\ Held(ch)' = Held(ch)]_vars

C26_Witness ==
    /\ profile = "bbox"
    /\ IsSome(seen)
    /\ Unwrap(seen).missed = 2
    /\ Unwrap(seen).at = 3
    /\ Unwrap(seen).value = pubs["meter_bbox"][3]
    /\ Unwrap(seen).value # pubs["meter_bbox"][2]

\* the Freebox port channel: two sends in one cycle, the second read
C26_WitnessEth ==
    /\ profile = "freebox"
    /\ cycle = 1
    /\ IsSome(seen)
    /\ Unwrap(seen).channel = "meter_eth"
    /\ Unwrap(seen).missed = 2
    /\ Unwrap(seen).value = fb.meter_eth
    /\ Len(fb.meter_eth) = 2
    /\ fb.meter_eth[1].success /\ fb.meter_eth[2].success

C28_FetchRestartsChain ==
    /\ [](profile = "bbox" /\ calls # <<>> => calls[1] = BBoxDefault)
    /\ [](profile = "freebox" /\ calls # <<>> => calls[1] = FreeboxDefault)
    /\ [][(profile = "bbox" /\ pc = "idle") =>
            /\ bb'.state = BBoxDefault
            /\ bb'.bbox_id = bb.bbox_id
            /\ pc' = "build"]_vars
    /\ [][(profile = "freebox" /\ pc = "idle") =>
            /\ fb'.state = FreeboxDefault
            /\ fb'.challenge_freebox = fb.challenge_freebox
            /\ fb'.session_token = fb.session_token
            /\ pc' = "build"]_vars

\* a second cycle whose first call is in flight with the session of the
\* first, which had stopped with an error after Cpu and Mem
C28_Witness ==
    /\ profile = "bbox"
    /\ cycle = 2
    /\ pc = "await"
    /\ last = NoLast
    /\ Unwrap(req) = [kind |-> "data", tag |-> BBoxDefault]
    /\ IsSome(bb.bbox_id)
    /\ IsSome(bb.stats.device)
    /\ bb.meter_bbox = BBoxApiResponseDefault

\* C29: a 200 to the Freebox SwitchStatus request whose body is JSON without a
\* "result" array makes the cycle fail with an error, and does not end it as
\* a completed cycle does (stated for the bodies that report success, the
\* others being the matter of C16).
C29_MissingResultArrayFails ==
    (/\ profile = "freebox"
     /\ last.kind = "data"
     /\ last.tag = FbTag("SwitchStatus")
     /\ last.response.transport = "ok"
     /\ last.response.status = 200
     /\ last.response.body.wf
     /\ last.response.body.success = Some(TRUE)
     /\ last.response.body.result.k # "array")
        => last.ret = "Err"

\* every key of every category of the snapshot a is a key of that category
\* in b
KeysWithin(a, b) ==
    \A cat \in DOMAIN a :
        IsSome(a[cat]) =>
            /\ IsSome(b[cat])
            /\ DOMAIN Unwrap(a[cat]) \subseteq DOMAIN Unwrap(b[cat])

\* C30: a 401 to a BBox data call leaves the working snapshot as it was, and
\* so does the login that follows; no step of a cycle takes a key out of the
\* working snapshot, and the snapshot published at the end of the cycle holds
\* every key the working snapshot held: what was merged before the 401 is
\* published when the cycle completes.
C30_UnauthorizedKeepsProgress ==
    /\ []((profile = "bbox" /\ last.kind = "data" /\ last.status = 401) =>
            /\ bb.stats = Unwrap(last.before).stats
            /\ bb.meter_bbox = Unwrap(last.before).meter_bbox
            /\ last.ret = "Http")
    /\ []((profile = "bbox" /\ last.kind = "login") =>
            bb.stats = Unwrap(last.before).stats)
    /\ [][(profile = "bbox" /\ pc # "idle") =>
            /\ sends' = sends => KeysWithin(bb.stats, bb'.stats)
            /\ sends' > sends => KeysWithin(bb.stats, bb'.meter_bbox)]_vars

C30_Witness ==
    /\ profile = "bbox"
    /\ CycleCompleted
    /\ cycle = 1
    /\ unauth = 1
    /\ Len(calls) = Len(BBoxChain) + 1
    /\ calls[2] = BbTag("Mem")
    /\ calls[3] = BbTag("Mem")
    /\ IsSome(bb.meter_bbox.device)
    /\ DOMAIN Unwrap(bb.meter_bbox.device) = {"cpu", "mem"}

\* a 200 to a SwitchPort request with a body that parses and reports success
\* was processed: the step that stores into the per-port vector
PortStored ==
    /\ profile = "freebox"
    /\ last.kind = "data"
    /\ last.tag.tag = "SwitchPort"
    /\ last.response.transport = "ok"
    /\ last.response.status = 200
    /\ last.response.body.wf
    /\ last.response.body.success = Some(TRUE)
    /\ last.response.body.result.k \in {"absent", "object"}

\* the vector the store writes into: the one the channel holds, or a new one
\* of number_ports defaults when the channel holds an empty one
PortVector(self) ==
    IF self.meter_eth # <<>> THEN self.meter_eth
    ELSE [i \in 1..self.number_ports |-> FreeboxApiResponseDefault]

\* C31: whenever a successful SwitchPort(p) response is stored, 1 <= p and
\* p - 1 is an index of the vector written into, whatever the cycles before.
C31_PortStoreInBounds ==
    PortStored =>
        /\ last.tag.port >= 1
        /\ last.tag.port <= Len(PortVector(Unwrap(last.before)))
        /\ last.ret # "Panic"

\* C31, for the ports p >= 1 alone
C31_GrownCountInBounds ==
    (PortStored /\ last.tag.port >= 1) =>
        last.tag.port <= Len(PortVector(Unwrap(last.before)))

\* C32: whenever a data call has been built, the credential it carries is
\* held (the Freebox session token, the BBox cookie), so the unwrap() of the
\* builder cannot fail; the tag of a data call is never End, and the builder
\* is never asked for a request at End.
C32_DataCallHasCredential ==
    /\ (profile = "freebox" /\ pc = "await" /\ Unwrap(req).kind = "data") =>
          /\ IsSome(fb.session_token)
          /\ Unwrap(req).tag # FbEnd
          /\ IsSome(FreeboxCall(Unwrap(req).tag))
    /\ (profile = "bbox" /\ pc = "await" /\ Unwrap(req).kind = "data") =>
          /\ IsSome(bb.bbox_id)
          /\ Unwrap(req).tag # BbEnd
          /\ IsSome(BBoxCall(Unwrap(req).tag))
    /\ (profile = "freebox" /\ pc = "build") => fb.state # FbEnd
    /\ (profile = "bbox" /\ pc = "build") => bb.state # BbEnd
    /\ last.why # "no_uri"

C32_Witness ==
    /\ profile = "bbox"
    /\ pc = "await"
    /\ unauth = 1
    /\ Unwrap(req) = [kind |-> "data", tag |-> Wifi(TRUE)]
    /\ bb.bbox_id = Some("id1")

\* C33: a session exchange that fails (a status other than 200, or a 200
\* without a session token) leaves the stored challenge as it was and stores
\* no token; a challenge once stored is never replaced, the challenge request
\* is built only while no challenge is held, and the request a cycle begins
\* with while a challenge and no token are held is the session exchange.
C33_FailedSessionKeepsChallenge ==
    /\ []((profile = "freebox" /\ last.kind = "session"
            /\ last.response.transport = "ok" /\ last.ret # "Http") =>
            /\ last.ret = "Err"
            /\ fb = Unwrap(last.before)
            /\ IsSome(fb.challenge_freebox)
            /\ IsNone(fb.session_token))
    /\ []((profile = "freebox" /\ pc = "await") =>
            /\ Unwrap(req).kind = "challenge" <=> IsNone(fb.challenge_freebox)
            /\ (IsSome(fb.challenge_freebox) /\ IsNone(fb.session_token)) =>
                  Unwrap(req).kind = "session")
    /\ [][(profile = "freebox" /\ IsSome(fb.challenge_freebox)) =>
            fb'.challenge_freebox = fb.challenge_freebox]_vars

\* the second cycle begins with the session exchange, for the challenge the
\* first cycle stored before its own exchange failed
C33_Witness ==
    /\ profile = "freebox"
    /\ cycle = 2
    /\ pc = "await"
    /\ last = NoLast
    /\ Unwrap(req).kind = "session"
    /\ fb.challenge_freebox = Some("ch2")
    /\ IsNone(fb.session_token)

\* C34: the value a BBox cycle publishes is the working snapshot as it was
\* right before the publish, that is with the fragments of the last response
\* merged; right after the publish the working snapshot has its four
\* categories absent; and a cycle that directly follows a cycle that published
\* (or is the first) publishes values read in that cycle only.
C34_PublishTakesSnapshot ==
    (profile = "bbox" /\ CycleCompleted) =>
        /\ bb.meter_bbox =
              MergeAll(Unwrap(last.before).stats, last.response.body.items)
        /\ bb.stats = BBoxApiResponseDefault
        /\ (cycle = 1 \/ cycle - 1 \in BBoxStamps(snap0)) =>
              BBoxStamps(bb.meter_bbox) \subseteq {cycle}

C34_Witness ==
    /\ profile = "bbox"
    /\ CycleCompleted
    /\ cycle = 2
    /\ BBoxStamps(snap0) = {1}
    /\ BBoxStamps(bb.meter_bbox) = {2}
    /\ Unwrap(last.before).stats # BBoxApiResponseDefault
    /\ bb.stats = BBoxApiResponseDefault

\* C35: when every answer is a good one, a cycle ends with FetchAction::None
\* after at most 6 data calls for BBox, 3 + N data calls for Freebox with N
\* the length of the discovery array, 1 call for Deye; the handshake calls
\* (one login, one challenge and one session request) come on top, each at
\* most once since its credential is then held.
C35_GoodCycleTerminates ==
    /\ pc # "panic"
    /\ (pc = "idle" /\ cycle >= 1) => (last.ret = "None" /\ last.why = "ok")
    /\ profile = "bbox" => Len(calls) <= 6
    /\ profile = "deye" => Len(calls) <= 1
    /\ profile = "freebox" =>
          /\ Len(calls) <= 3 + MaxPorts
          /\ Len(calls) > 3 => Len(calls) <= 3 + Len(fb.meter_switch)
    /\ (last.kind \in {"login", "challenge", "session"}) =>
          /\ last.ret = "Http"
          /\ Unwrap(last.before) # AnyAdaptor

\* the places in a text of the lines of the assignment at place i of DeyeRequired
Occurrences(data, i) == {k \in DOMAIN data : data[k].name = DeyeRequired[i]}

\* the last of them
LastOccurrence(data, i) ==
    data[CHOOSE k \in Occurrences(data, i) : \A j \in Occurrences(data, i) : j <= k]

\* whether what follows the opening quote ends with the closing characters:
\* quote and semicolon, after a '%' for the signal quality
Terminated(i, tail) ==
    LET n == Len(tail) IN
    IF i = 6
    THEN n >= 3 /\ SubSeq(tail, n - 2, n) = <<"%", Quote, ";">>
    ELSE n >= 2 /\ SubSeq(tail, n - 1, n) = <<Quote, ";">>

\* the assignments that count as missing when the last occurrence decides
MissingByLast(data) ==
    {i \in DOMAIN DeyeRequired :
        \/ Occurrences(data, i) = {}
        \/ ~Terminated(i, LastOccurrence(data, i).tail)}

\* C36: when an assignment occurs more than once the last occurrence alone
\* makes the field: its value is the one published, and when it lacks the
\* closing characters the assignment counts as missing, whatever an earlier
\* occurrence held.
C36_LastOccurrenceWins ==
    DeyeRead =>
        LET data == DataUpTo(last.response.frames, last.taken)
            missing == MissingByLast(data)
            Tail_(i) == LastOccurrence(data, i).tail
        IN  IF missing = {}
            THEN /\ last.ret = "None"
                 /\ dy.meter_solar.serial_number = Unwrap(SerialOf(Tail_(1)))
                 /\ dy.meter_solar.current_power = Unwrap(PowerOf(Tail_(2)))
                 /\ dy.meter_solar.yield_today = Unwrap(YieldOf(Tail_(3)))
                 /\ dy.meter_solar.total_yield = Unwrap(YieldOf(Tail_(4)))
                 /\ dy.meter_solar.wireless_router_ssid = Unwrap(SsidOf(Tail_(5)))
                 /\ dy.meter_solar.wireless_signal_quality = Unwrap(QualityOf(Tail_(6)))
            ELSE /\ last.ret = "Err"
                 /\ dy = Unwrap(last.before)
                 /\ \E i \in missing : (\A j \in missing : i <= j) /\ last.why = DeyeRequired[i]

\* a serial number without its closing characters after a well-formed one
C36_Witness ==
    /\ DeyeRead
    /\ LET data == DataUpTo(last.response.frames, last.taken) IN
       /\ Cardinality(Occurrences(data, 1)) = 2
       /\ \E k \in Occurrences(data, 1) : Terminated(1, data[k].tail)
       /\ ~Terminated(1, LastOccurrence(data, 1).tail)
    /\ last.ret = "Err"
    /\ last.why = "webdata_sn"

\* a second well-formed serial number after the first
C36_WitnessReplaced ==
    /\ DeyeRead
    /\ LET data == DataUpTo(last.response.frames, last.taken) IN
       /\ Cardinality(Occurrences(data, 1)) = 2
       /\ \A k \in Occurrences(data, 1) : Terminated(1, data[k].tail)
    /\ last.ret = "None"
    /\ dy.meter_solar.serial_number = <<"Y", "2">>
    /\ sends = 1

\* the quoted value of a terminated line of the assignment at place i
QuotedValue(i, tail) == SubSeq(tail, 1, Len(tail) - (IF i = 6 THEN 3 ELSE 2))

\* the parse of the field's type on the value of the numeric assignment i
NumberOf(i, value) ==
    CASE i = 2 -> ParseUnsigned(value, U64MaxDigits)
      [] i = 6 -> ParseUnsigned(value, U8MaxDigits)
      [] OTHER -> ParseF64(value)

\* the numeric fields by the place of their assignment
NumericField(data, i) ==
    CASE i = 2 -> data.current_power
      [] i = 3 -> data.yield_today
      [] i = 4 -> data.total_yield
      [] OTHER -> data.wireless_signal_quality

\* the numeric assignments whose deciding line is well-formed and holds a
\* value that is not a number of the field's type
NotNumbers(data) ==
    {i \in {2, 3, 4, 6} :
        /\ Occurrences(data, i) # {}
        /\ Terminated(i, LastOccurrence(data, i).tail)
        /\ IsNone(NumberOf(i, QuotedValue(i, LastOccurrence(data, i).tail)))}

\* C37: a well-formed numeric assignment whose value is not a number of the
\* field's type gives 0 for the field and does not fail the parse: a document
\* whose six assignments are well-formed is published, with 0 in that field.
C37_BadNumberIsZero ==
    DeyeRead =>
        LET data == DataUpTo(last.response.frames, last.taken) IN
        MissingByLast(data) = {} =>
            /\ last.ret = "None"
            /\ sends = 1
            /\ \A i \in NotNumbers(data) : NumericField(dy.meter_solar, i) = 0

\* a current power that is not a number, published as 0
C37_Witness ==
    /\ DeyeRead
    /\ LET data == DataUpTo(last.response.frames, last.taken) IN
       /\ MissingByLast(data) = {}
       /\ 2 \in NotNumbers(data)
    /\ last.ret = "None"
    /\ sends = 1
    /\ dy.meter_solar.current_power = 0
    /\ dy.meter_solar.serial_number = <<"X", "1">>

\* a signal quality above 255, published as 0
C37_WitnessRange ==
    /\ DeyeRead
    /\ LET data == DataUpTo(last.response.frames, last.taken) IN
       /\ MissingByLast(data) = {}
       /\ LastOccurrence(data, 6).tail = <<"3", "0", "0", "%", Quote, ";">>
    /\ last.ret = "None"
    /\ dy.meter_solar.wireless_signal_quality = 0

\* the SwitchPort calls made so far in the cycle
PortCalls == {k \in DOMAIN calls : calls[k].tag = "SwitchPort"}

\* C38: the port count equals the length of the discovery array, whatever
\* the length: after the discovery step the count is the length and the
\* sequencer is at the port of that number, and a cycle that completes has
\* made as many SwitchPort calls as the array has elements.
C38_PortCountIsArrayLength ==
    /\ (/\ FreeboxAnswered
        /\ last.kind = "data"
        /\ last.tag = FbTag("SwitchStatus")
        /\ last.ret = "Http") =>
            LET length == Len(last.response.body.result.items) IN
            /\ fb.number_ports = length
            /\ length >= 1 => fb.state = SwitchPort(length)
    /\ (profile = "freebox" /\ CycleCompleted /\ last.tag.tag = "SwitchPort") =>
            Cardinality(PortCalls) = Len(fb.meter_switch)

====
